---- MODULE Spec2Model ----
(***************************************************************************)
(* Verification model of the Intelligent-Email-Tasker backend: the Gmail   *)
(* credential manager (GmailService.getValidAccessToken and its renewal),  *)
(* the source fetcher (GmailService.fetchAndStoreEmails), the enrichment   *)
(* pipeline (AIProcessorService.processEmails) and the semantic search     *)
(* (AIController.semanticSearch over QdrantService).                       *)
(*                                                                         *)
(* Every `await` of the TypeScript code is a yield point of the Node event *)
(* loop: the code between two awaits runs atomically and is one action     *)
(* here.  A database or network call takes effect at the step that         *)
(* receives its response.                                                  *)
(***************************************************************************)
EXTENDS Integers, Sequences, FiniteSets, TLC

(***************************************************************************)
(* Bounds of the model.                                                    *)
(***************************************************************************)
MaxNow == 1
MaxCalls == 2
MaxFetches == 2
MaxTopic == 2
MaxClock == 11
MaxLen == 3
MaxTokens == 3

(***************************************************************************)
(* Program constants.                                                      *)
(***************************************************************************)
\* 5 * 60 * 1000 ms, in minutes (the unit of `now`)
RefreshBuffer == 5
\* semanticSearch: `body.limit || 10`
DefaultLimit == 10
\* semanticSearch: `r.score > 0.5`, in thousandths
MinScore == 500
\* searchSimilarEmails (gRPC client): QDRANT_SCORE_THRESHOLD || '0.1', in thousandths
QdrantScoreThreshold == 100
\* fuzzySearch: .filter((r) => r.score > 0.3), limit ? Math.min(parseInt(limit, 10), 100) : 50
FuzzyMinScore == 300
FuzzyDefaultLimit == 50
FuzzyMaxLimit == 100
\* RESTORE_INTERVAL_MS = 5 * 60 * 1000, in minutes (the unit of `clock`)
RestoreInterval == 5

\* lifetime of a newly issued access token: longer than the buffer by one minute
TokenLife == RefreshBuffer + 1

Owners == {1, 2}
Callers == {"c1", "c2"}

NoExpiry == -1
NoRow == [id |-> 0, refreshToken |-> 0, accessToken |-> 0, accessTokenExpiry |-> NoExpiry]
ErrNotFound == -1
ErrReauth == -2
NoResult == -3
\* an error thrown by a repository call
DbError == -4
NoCaller == "none"

\* A row left in gmail_tokens by an earlier run of the service.
StoredRow(o) == [id |-> o, refreshToken |-> o, accessToken |-> o, accessTokenExpiry |-> TokenLife]

VARIABLES
    now,            \* Date.now(), in minutes
    seq,            \* source of fresh token values and row ids
    calls,          \* number of operations started so far
    gmailTokens,    \* gmail_tokens table: owner -> row (id = 0: no row)
    refreshLocks,   \* GmailService.refreshLocks: owner -> caller owning the pending handle
    cpc,            \* caller -> position in getValidAccessToken
    cowner,         \* caller -> userId argument
    ctok,           \* caller -> row read by findOne (line 148)
    ccred,          \* caller -> credentials of the OAuth response
    cent,           \* caller -> entity built by saveGmailToken
    cwait,          \* caller -> caller whose handle it awaits
    cres,           \* caller -> value returned / error thrown
    renewed,        \* caller -> its current call issued a renewal
    rfail,          \* caller -> the renewal of its current call failed
    overlap         \* caller -> callers whose call for the same owner overlapped its call

credVars == <<now, seq, calls, gmailTokens, refreshLocks, cpc, cowner, ctok, ccred,
              cent, cwait, cres, renewed, rfail, overlap>>

(***************************************************************************)
(* Source fetcher state.                                                   *)
(***************************************************************************)
VARIABLES
    emailRaw,       \* email_raw table: set of rows [id, userId, gmailId]
    fetch,          \* fetcher -> locals of its fetchAndStoreEmails call
    fetches,        \* number of fetchAndStoreEmails calls started so far
    lastFetch,      \* owner -> summary of the owner's last finished call
    events          \* messages published to the email-fetched topic

fetchVars == <<emailRaw, fetch, fetches, lastFetch, events>>

(***************************************************************************)
(* Enrichment pipeline state.                                              *)
(***************************************************************************)
VARIABLES
    emailSummary,   \* email_summary table: set of rows [id, emailRawId, qdrantId]
    emailMetadata,  \* email_metadata table: set of rows [id, emailRawId]
    points,         \* Qdrant collection 'emails': set of points [id, userId]
    work,           \* worker -> locals of its processEmails run
    attempted,      \* ids of the stored items in the batches of the runs that have returned
    everOverlap     \* two runs have been in progress at the same time

enrichVars == <<emailSummary, emailMetadata, points, work, attempted, everOverlap>>

(***************************************************************************)
(* Semantic search state.                                                  *)
(***************************************************************************)
VARIABLES
    srch            \* locals and response of the POST /ai/search request

searchVars == <<srch>>

(***************************************************************************)
(* Listener state: AIConsumer on the email-fetched topic.                  *)
(***************************************************************************)
VARIABLES
    topic,          \* the messages of the topic partition, in offset order
    offset,         \* number of messages consumed (the group's committed position)
    lsn,            \* the eachMessage handler: position and how its promise settled
    deliveries,     \* number of times a message was handed to handleMessage
    rejected        \* a handler promise was rejected to the broker client

listenVars == <<topic, offset, lsn, deliveries, rejected>>

(***************************************************************************)
(* Snooze scheduler state: GmailSchedulerService.                          *)
(***************************************************************************)
VARIABLES
    clock,          \* Date.now() of the scheduler's process, in minutes
    snooze,         \* email_raw columns status and snoozeUntil: item id -> [status, snoozeUntil]
    sched,          \* the scheduler: started, stopped, start time, interval firings
    triggered,      \* number of restore runs triggered so far
    restore         \* run slot -> locals of a restoreSnoozedEmails run

schedVars == <<clock, snooze, sched, triggered, restore>>

(***************************************************************************)
(* Stand-alone operations: QdrantService.storeEmailEmbedding, the TBaseDTO *)
(* constructor and GGJParseIntPipe.transform.                              *)
(***************************************************************************)
VARIABLES
    store,          \* locals of a storeEmailEmbedding call
    dto,            \* a TBaseDTO construction: its arguments and the object built
    pipe            \* a GGJParseIntPipe.transform call: its input and its outcome

utilVars == <<store, dto, pipe>>

(***************************************************************************)
(* Functions of one item's content: GeminiService.summarizeEmail and       *)
(* extractMetadata on the model's output, extractBody on the payload tree, *)
(* the word count and the attachment scan of processEmail.                 *)
(***************************************************************************)
VARIABLES
    gem,            \* the model's output text and what the two parsers made of it
    payload,        \* a payload tree and the bodyText / bodyHtml extracted from it
    stats           \* an item's text and raw payload, and the numbers computed from them

fnVars == <<gem, payload, stats>>

vars == <<credVars, fetchVars, enrichVars, searchVars, listenVars, schedVars, utilVars, fnVars>>

\* what the operations of one component leave alone
exceptCred == <<utilVars, fetchVars, enrichVars, searchVars, listenVars, schedVars, fnVars>>
exceptFetch == <<utilVars, credVars, enrichVars, searchVars, listenVars, schedVars, fnVars>>
exceptEnrich == <<utilVars, credVars, fetchVars, searchVars, listenVars, schedVars, fnVars>>
exceptSearch == <<credVars, fetchVars, emailSummary, emailMetadata, work, attempted, everOverlap,
                  listenVars, schedVars, utilVars, fnVars>>
exceptListen == <<utilVars, credVars, fetchVars, searchVars, schedVars, fnVars>>
exceptSched == <<credVars, fetchVars, enrichVars, searchVars, listenVars, utilVars, fnVars>>
exceptStore == <<credVars, fetchVars, emailSummary, emailMetadata, work, attempted, everOverlap,
                 searchVars, listenVars, schedVars, dto, pipe, fnVars>>
exceptDto == <<credVars, fetchVars, enrichVars, searchVars, listenVars, schedVars, store, pipe,
              fnVars>>
exceptPipe == <<credVars, fetchVars, enrichVars, searchVars, listenVars, schedVars, store, dto,
               fnVars>>
exceptGem == <<credVars, fetchVars, enrichVars, searchVars, listenVars, schedVars, utilVars, payload,
              stats>>
exceptPayload == <<credVars, fetchVars, enrichVars, searchVars, listenVars, schedVars, utilVars, gem,
              stats>>
exceptStats == <<credVars, fetchVars, enrichVars, searchVars, listenVars, schedVars, utilVars, gem,
                payload>>

\* snoozeUntil is NULL
NoTime == -1
SnoozeItems == {1, 2}
RunSlots == {1, 2, 3}
\* status 'inbox', snoozeUntil NULL
Active == [status |-> "inbox", snoozeUntil |-> NoTime]
IdleRestore == [pc |-> "idle", found |-> {}, restored |-> 0, ok |-> TRUE]
NotStarted == [running |-> FALSE, stopped |-> FALSE, startedAt |-> 0, fired |-> 0]

\* an undefined argument or field, and a string one
Undefined == [kind |-> "undefined", val |-> ""]
Str(x) == [kind |-> "string", val |-> x]

IdleStore == [pc |-> "idle", grpc |-> FALSE, emailId |-> 2, userId |-> 0, netCalls |-> 0,
              outcome |-> "none"]
IdleDto ==
    [built |-> FALSE, args |-> [data |-> Undefined, message |-> Undefined, error |-> Undefined],
     success |-> FALSE, data |-> Undefined, message |-> Undefined, error |-> Undefined]
IdlePipe == [value |-> <<>>, outcome |-> "none", val |-> 0]

\* no stand-alone operation has been called
QuietUtil ==
    /\ store = IdleStore
    /\ dto = IdleDto
    /\ pipe = IdlePipe

IdleGem ==
    [text |-> <<>>, summaryApi |-> TRUE, summary |-> [outcome |-> "none"],
     metadataApi |-> TRUE, metadata |-> [outcome |-> "none"]]
IdlePayload ==
    [tree |-> [mimeType |-> "", data |-> "", filename |-> "", parts |-> <<>>], done |-> FALSE,
     bodyText |-> "", bodyHtml |-> ""]
IdleStats ==
    [subject |-> <<>>, content |-> <<>>,
     rawData |-> [mimeType |-> "", data |-> "", filename |-> "", parts |-> <<>>],
     done |-> FALSE, wordCount |-> 0, readingTime |-> 0, hasAttachment |-> FALSE,
     attachmentTypes |-> <<>>]

\* no function of an item's content has been applied
QuietFn ==
    /\ gem = IdleGem
    /\ payload = IdlePayload
    /\ stats = IdleStats

\* the scheduler before the module is initialised
QuietSched ==
    /\ clock = 0
    /\ snooze = [id \in SnoozeItems |-> Active]
    /\ sched = NotStarted
    /\ triggered = 0
    /\ restore = [r \in RunSlots |-> IdleRestore]

\* the listener before its first message
IdleListener == [pc |-> "idle", outcome |-> "none"]

QuietListen ==
    /\ topic = <<>>
    /\ offset = 0
    /\ lsn = IdleListener
    /\ deliveries = 0
    /\ rejected = FALSE

\* the caller is inside refreshAccessToken (lines 185-219)
Renewing(c) == cpc[c] \in {"oauth", "saveFind", "saveSave", "del"}

InFlight(c) == cpc[c] \in {"find", "check", "oauth", "saveFind", "saveSave", "del", "wait"}

(***************************************************************************)
(* getValidAccessToken: the validity test of the cached access token.      *)
(***************************************************************************)
\* mutant: the buffer taken in seconds instead of minutes
TokenValid_BufferUnit(tok, t) ==
    /\ tok.accessToken # 0
    /\ tok.accessTokenExpiry # NoExpiry
    /\ tok.accessTokenExpiry > t + RefreshBuffer * 60

TokenValid(tok, t) ==
    /\ tok.accessToken # 0
    /\ tok.accessTokenExpiry # NoExpiry
    /\ tok.accessTokenExpiry > t + RefreshBuffer

InitCred ==
    /\ now = 0
    /\ seq = 2
    /\ calls = 0
    /\ gmailTokens \in [Owners -> {NoRow} \cup {StoredRow(o) : o \in Owners}]
    /\ \A o \in Owners : gmailTokens[o] \in {NoRow, StoredRow(o)}
    /\ refreshLocks = [o \in Owners |-> NoCaller]
    /\ cpc = [c \in Callers |-> "idle"]
    /\ cowner = [c \in Callers |-> 1]
    /\ ctok = [c \in Callers |-> NoRow]
    /\ ccred = [c \in Callers |-> [accessToken |-> 0, expiresIn |-> 0]]
    /\ cent = [c \in Callers |-> NoRow]
    /\ cwait = [c \in Callers |-> NoCaller]
    /\ cres = [c \in Callers |-> NoResult]
    /\ renewed = [c \in Callers |-> FALSE]
    /\ rfail = [c \in Callers |-> FALSE]
    /\ overlap = [c \in Callers |-> {}]

(***************************************************************************)
(* Time passes.                                                            *)
(***************************************************************************)
Tick ==
    /\ now < MaxNow
    /\ now' = now + 1
    /\ UNCHANGED <<seq, calls, gmailTokens, refreshLocks, cpc, cowner, ctok, ccred,
                   cent, cwait, cres, renewed, rfail, overlap>>
    /\ UNCHANGED exceptCred

(***************************************************************************)
(* saveGmailTokens (OAuth callback): upsert of the owner's row.  The       *)
(* refresh token is optional, the expiry date is optional.                 *)
(***************************************************************************)
SaveGmailTokens(o, withRefresh, withExpiry) ==
    /\ calls < MaxCalls
    /\ calls' = calls + 1
    /\ seq' = seq + 3
    /\ LET old == gmailTokens[o]
           acc == seq + 1
           ref == seq + 2
           exp == IF withExpiry THEN now + TokenLife ELSE NoExpiry
           row == IF old.id # 0
                  THEN [id |-> old.id,
                        refreshToken |-> IF withRefresh THEN ref ELSE old.refreshToken,
                        accessToken |-> acc,
                        accessTokenExpiry |-> exp]
                  ELSE [id |-> seq + 3,
                        refreshToken |-> IF withRefresh THEN ref ELSE 0,
                        accessToken |-> acc,
                        accessTokenExpiry |-> exp]
       IN gmailTokens' = [gmailTokens EXCEPT ![o] = row]
    /\ UNCHANGED <<now, refreshLocks, cpc, cowner, ctok, ccred, cent, cwait, cres,
                   renewed, rfail, overlap>>
    /\ UNCHANGED exceptCred

(***************************************************************************)
(* deleteGmailTokens (disconnect).                                         *)
(***************************************************************************)
DeleteGmailTokens(o) ==
    /\ calls < MaxCalls
    /\ calls' = calls + 1
    /\ gmailTokens[o].id # 0
    /\ gmailTokens' = [gmailTokens EXCEPT ![o] = NoRow]
    /\ UNCHANGED <<now, seq, refreshLocks, cpc, cowner, ctok, ccred, cent, cwait, cres,
                   renewed, rfail, overlap>>
    /\ UNCHANGED exceptCred

(***************************************************************************)
(* getValidAccessToken(userId): the call, up to the first await.           *)
(***************************************************************************)
GvatCall(c, o) ==
    /\ ~InFlight(c)
    /\ calls < MaxCalls
    /\ calls' = calls + 1
    /\ cpc' = [cpc EXCEPT ![c] = "find"]
    /\ cowner' = [cowner EXCEPT ![c] = o]
    /\ ctok' = [ctok EXCEPT ![c] = NoRow]
    /\ ccred' = [ccred EXCEPT ![c] = [accessToken |-> 0, expiresIn |-> 0]]
    /\ cent' = [cent EXCEPT ![c] = NoRow]
    /\ cwait' = [cwait EXCEPT ![c] = NoCaller]
    /\ cres' = [cres EXCEPT ![c] = NoResult]
    /\ renewed' = [renewed EXCEPT ![c] = FALSE]
    /\ rfail' = [rfail EXCEPT ![c] = FALSE]
    /\ overlap' = [d \in Callers |->
                     IF d = c
                     THEN {e \in Callers \ {c} : InFlight(e) /\ cowner[e] = o}
                     ELSE IF InFlight(d) /\ cowner[d] = o
                          THEN overlap[d] \cup {c}
                          ELSE overlap[d] \ {c}]
    /\ UNCHANGED <<now, seq, gmailTokens, refreshLocks>>
    /\ UNCHANGED exceptCred

(***************************************************************************)
(* getValidAccessToken line 148: gmailTokenRepository.findOne.             *)
(***************************************************************************)
GvatFind(c) ==
    /\ cpc[c] = "find"
    /\ ctok' = [ctok EXCEPT ![c] = gmailTokens[cowner[c]]]
    /\ cpc' = [cpc EXCEPT ![c] = "check"]
    /\ UNCHANGED <<now, seq, calls, gmailTokens, refreshLocks, cowner, ccred, cent,
                   cwait, cres, renewed, rfail, overlap>>
    /\ UNCHANGED exceptCred

\* mutant: the renewal is started without looking at refreshLocks
GvatCheck_NoLock(c) ==
    /\ cpc[c] = "check"
    /\ LET o == cowner[c] IN
       IF ctok[c].id = 0
       THEN /\ cpc' = [cpc EXCEPT ![c] = "failed"]
            /\ cres' = [cres EXCEPT ![c] = ErrNotFound]
            /\ UNCHANGED <<refreshLocks, cwait, renewed, rfail>>
       ELSE IF TokenValid(ctok[c], now)
       THEN /\ cpc' = [cpc EXCEPT ![c] = "done"]
            /\ cres' = [cres EXCEPT ![c] = ctok[c].accessToken]
            /\ UNCHANGED <<refreshLocks, cwait, renewed, rfail>>
       ELSE IF FALSE
       THEN /\ cpc' = [cpc EXCEPT ![c] = "wait"]
            /\ cwait' = [cwait EXCEPT ![c] = refreshLocks[o]]
            /\ UNCHANGED <<refreshLocks, cres, renewed, rfail>>
       ELSE /\ cpc' = [cpc EXCEPT ![c] = "oauth"]
            /\ refreshLocks' = [refreshLocks EXCEPT ![o] = c]
            /\ renewed' = [renewed EXCEPT ![c] = TRUE]
            /\ UNCHANGED <<cwait, cres, rfail>>
    /\ UNCHANGED <<now, seq, calls, gmailTokens, cowner, ctok, ccred, cent, overlap>>
    /\ UNCHANGED exceptCred

\* mutant: one pending renewal, of any owner, makes every caller wait for it
GvatCheck_GlobalLock(c) ==
    /\ cpc[c] = "check"
    /\ LET o == cowner[c] IN
       IF ctok[c].id = 0
       THEN /\ cpc' = [cpc EXCEPT ![c] = "failed"]
            /\ cres' = [cres EXCEPT ![c] = ErrNotFound]
            /\ UNCHANGED <<refreshLocks, cwait, renewed, rfail>>
       ELSE IF TokenValid(ctok[c], now)
       THEN /\ cpc' = [cpc EXCEPT ![c] = "done"]
            /\ cres' = [cres EXCEPT ![c] = ctok[c].accessToken]
            /\ UNCHANGED <<refreshLocks, cwait, renewed, rfail>>
       ELSE IF \E p \in Owners : refreshLocks[p] # NoCaller
       THEN /\ cpc' = [cpc EXCEPT ![c] = "wait"]
            /\ cwait' = [cwait EXCEPT ![c] =
                            refreshLocks[CHOOSE p \in Owners : refreshLocks[p] # NoCaller]]
            /\ UNCHANGED <<refreshLocks, cres, renewed, rfail>>
       ELSE /\ cpc' = [cpc EXCEPT ![c] = "oauth"]
            /\ refreshLocks' = [refreshLocks EXCEPT ![o] = c]
            /\ renewed' = [renewed EXCEPT ![c] = TRUE]
            /\ UNCHANGED <<cwait, cres, rfail>>
    /\ UNCHANGED <<now, seq, calls, gmailTokens, cowner, ctok, ccred, cent, overlap>>
    /\ UNCHANGED exceptCred

(***************************************************************************)
(* getValidAccessToken lines 152-174: no row -> throw; valid cached token  *)
(* -> return it; pending handle -> await it; else start the renewal and    *)
(* register the handle.                                                    *)
(***************************************************************************)
GvatCheck(c) ==
    /\ cpc[c] = "check"
    /\ LET o == cowner[c] IN
       IF ctok[c].id = 0
       THEN /\ cpc' = [cpc EXCEPT ![c] = "failed"]
            /\ cres' = [cres EXCEPT ![c] = ErrNotFound]
            /\ UNCHANGED <<refreshLocks, cwait, renewed, rfail>>
       ELSE IF TokenValid(ctok[c], now)
       THEN /\ cpc' = [cpc EXCEPT ![c] = "done"]
            /\ cres' = [cres EXCEPT ![c] = ctok[c].accessToken]
            /\ UNCHANGED <<refreshLocks, cwait, renewed, rfail>>
       ELSE IF refreshLocks[o] # NoCaller
       THEN /\ cpc' = [cpc EXCEPT ![c] = "wait"]
            /\ cwait' = [cwait EXCEPT ![c] = refreshLocks[o]]
            /\ UNCHANGED <<refreshLocks, cres, renewed, rfail>>
       ELSE /\ cpc' = [cpc EXCEPT ![c] = "oauth"]
            /\ refreshLocks' = [refreshLocks EXCEPT ![o] = c]
            /\ renewed' = [renewed EXCEPT ![c] = TRUE]
            /\ UNCHANGED <<cwait, cres, rfail>>
    /\ UNCHANGED <<now, seq, calls, gmailTokens, cowner, ctok, ccred, cent, overlap>>
    /\ UNCHANGED exceptCred

(***************************************************************************)
(* The renewal promise settles: the owner's finally block removes the      *)
(* handle and every caller awaiting the same promise resumes with the same *)
(* outcome, all in one microtask drain.                                    *)
(***************************************************************************)
\* mutant: the handle is left in refreshLocks when the renewal settles
Settle_KeepHandle(c, ok, value) ==
    /\ UNCHANGED refreshLocks
    /\ cpc' = [d \in Callers |->
                 IF d = c \/ (cpc[d] = "wait" /\ cwait[d] = c)
                 THEN (IF ok THEN "done" ELSE "failed")
                 ELSE cpc[d]]
    /\ cres' = [d \in Callers |->
                 IF d = c \/ (cpc[d] = "wait" /\ cwait[d] = c)
                 THEN value
                 ELSE cres[d]]
    /\ ccred' = [ccred EXCEPT ![c] = [accessToken |-> 0, expiresIn |-> 0]]
    /\ cent' = [cent EXCEPT ![c] = NoRow]

Settle(c, ok, value) ==
    /\ refreshLocks' = [refreshLocks EXCEPT ![cowner[c]] = NoCaller]
    /\ cpc' = [d \in Callers |->
                 IF d = c \/ (cpc[d] = "wait" /\ cwait[d] = c)
                 THEN (IF ok THEN "done" ELSE "failed")
                 ELSE cpc[d]]
    /\ cres' = [d \in Callers |->
                 IF d = c \/ (cpc[d] = "wait" /\ cwait[d] = c)
                 THEN value
                 ELSE cres[d]]
    /\ ccred' = [ccred EXCEPT ![c] = [accessToken |-> 0, expiresIn |-> 0]]
    /\ cent' = [cent EXCEPT ![c] = NoRow]

(***************************************************************************)
(* refreshAccessToken line 197: the OAuth refresh call returns or throws.  *)
(***************************************************************************)
RefreshOAuth(c, ok, hasToken, hasExpiry) ==
    /\ cpc[c] = "oauth"
    /\ IF ok
       THEN /\ cpc' = [cpc EXCEPT ![c] = "saveFind"]
            /\ ccred' = [ccred EXCEPT ![c] =
                  [accessToken |-> IF hasToken THEN seq + 1 ELSE 0,
                   expiresIn |-> IF hasExpiry THEN TokenLife ELSE 0]]
            /\ seq' = seq + 1
            /\ UNCHANGED rfail
       ELSE /\ cpc' = [cpc EXCEPT ![c] = "del"]
            /\ rfail' = [rfail EXCEPT ![c] = TRUE]
            /\ UNCHANGED <<ccred, seq>>
    /\ UNCHANGED <<now, calls, gmailTokens, refreshLocks, cowner, ctok, cent, cwait,
                   cres, renewed, overlap>>
    /\ UNCHANGED exceptCred

(***************************************************************************)
(* saveGmailToken lines 119-139: findOne, then the entity to save.         *)
(***************************************************************************)
SaveGmailTokenEntity(old, refreshToken, accessToken, expiresIn, t) ==
    LET accessTokenExpiry == IF accessToken # 0 /\ expiresIn # 0
                             THEN t + expiresIn ELSE NoExpiry
    IN IF old.id # 0
       THEN [id |-> old.id,
             refreshToken |-> refreshToken,
             accessToken |-> IF accessToken # 0 THEN accessToken ELSE old.accessToken,
             accessTokenExpiry |-> IF accessToken # 0 THEN accessTokenExpiry
                                   ELSE old.accessTokenExpiry]
       ELSE [id |-> 0,
             refreshToken |-> refreshToken,
             accessToken |-> accessToken,
             accessTokenExpiry |-> accessTokenExpiry]

RefreshSaveFind(c) ==
    /\ cpc[c] = "saveFind"
    /\ cent' = [cent EXCEPT ![c] =
          SaveGmailTokenEntity(gmailTokens[cowner[c]], ctok[c].refreshToken,
                               ccred[c].accessToken, ccred[c].expiresIn, now)]
    /\ cpc' = [cpc EXCEPT ![c] = "saveSave"]
    /\ UNCHANGED <<now, seq, calls, gmailTokens, refreshLocks, cowner, ctok, ccred,
                   cwait, cres, renewed, rfail, overlap>>
    /\ UNCHANGED exceptCred

(***************************************************************************)
(* saveGmailToken line 141: repository.save.  An entity with an id updates *)
(* its row, or inserts it again when the row is gone; an entity without id *)
(* is inserted.  An insert for an owner that has a row violates the unique *)
(* index on userId and throws into the catch block of refreshAccessToken.  *)
(***************************************************************************)
RefreshSaveSave(c) ==
    /\ cpc[c] = "saveSave"
    /\ LET o == cowner[c]
           cur == gmailTokens[o]
           ent == cent[c]
       IN IF cur.id # 0 /\ cur.id # ent.id
          THEN /\ cpc' = [cpc EXCEPT ![c] = "del"]
               /\ rfail' = [rfail EXCEPT ![c] = TRUE]
               /\ UNCHANGED <<gmailTokens, refreshLocks, cres, seq, ccred, cent>>
          ELSE /\ gmailTokens' = [gmailTokens EXCEPT ![o] =
                                    IF ent.id # 0 THEN ent
                                    ELSE [ent EXCEPT !.id = seq + 1]]
               /\ seq' = seq + 1
               /\ Settle(c, TRUE, ccred[c].accessToken)
               /\ UNCHANGED rfail
    /\ UNCHANGED <<now, calls, cowner, ctok, cwait, renewed, overlap>>
    /\ UNCHANGED exceptCred

(***************************************************************************)
(* refreshAccessToken lines 212-218: on failure delete the owner's row and *)
(* throw the re-authentication error.                                      *)
(***************************************************************************)
\* mutant: the failed renewal keeps the stored row
RefreshDelete_KeepRow(c) ==
    /\ cpc[c] = "del"
    /\ UNCHANGED gmailTokens
    /\ Settle(c, FALSE, ErrReauth)
    /\ UNCHANGED <<now, seq, calls, cowner, ctok, cwait, renewed, rfail, overlap>>
    /\ UNCHANGED exceptCred

RefreshDelete(c) ==
    /\ cpc[c] = "del"
    /\ gmailTokens' = [gmailTokens EXCEPT ![cowner[c]] = NoRow]
    /\ Settle(c, FALSE, ErrReauth)
    /\ UNCHANGED <<now, seq, calls, cowner, ctok, cwait, renewed, rfail, overlap>>
    /\ UNCHANGED exceptCred

NextCred ==
    \/ Tick
    \/ \E o \in Owners, r \in BOOLEAN, e \in BOOLEAN : SaveGmailTokens(o, r, e)
    \/ \E o \in Owners : DeleteGmailTokens(o)
    \/ \E c \in Callers, o \in Owners : GvatCall(c, o)
    \/ \E c \in Callers : GvatFind(c)
    \/ \E c \in Callers : GvatCheck(c)
    \/ \E c \in Callers, ok \in BOOLEAN, t \in BOOLEAN, e \in BOOLEAN : RefreshOAuth(c, ok, t, e)
    \/ \E c \in Callers : RefreshSaveFind(c)
    \/ \E c \in Callers : RefreshSaveSave(c)
    \/ \E c \in Callers : RefreshDelete(c)

(***************************************************************************)
(* Source fetcher: GmailService.fetchAndStoreEmails.                       *)
(***************************************************************************)
Fetchers == {"f1", "f2"}
\* a userId that has no row in the users table
UnknownUser == 3

\* the owner's inbox in the order users.messages.list reports it (Gmail
\* reports every message with its id)
Inbox == <<2, 1>>

RECURSIVE SubSeqs(_)
SubSeqs(q) ==
    IF q = <<>> THEN {<<>>}
    ELSE LET rest == SubSeqs(Tail(q))
         IN rest \cup {<<Head(q)>> \o r : r \in rest}

Range(q) == {q[k] : k \in 1..Len(q)}

\* what users.messages.list may return: any part of the inbox, in its order
Listings == SubSeqs(Inbox)

\* the returned object; skipped is the skippedCount printed in the message
NoFetchResult == [success |-> FALSE, count |-> 0, skipped |-> 0, message |-> "none"]
Failure(msg) == [success |-> FALSE, count |-> 0, skipped |-> 0, message |-> msg]
Success(loc) == [success |-> TRUE, count |-> loc.storedCount, skipped |-> loc.skippedCount,
                 message |-> "Successfully stored"]
NoLast == [valid |-> FALSE, messages |-> <<>>, storedCount |-> 0, skippedCount |-> 0]

IdleFetch ==
    [pc |-> "idle", userId |-> 1, messages |-> <<>>, i |-> 1,
     storedCount |-> 0, skippedCount |-> 0, storedEmailIds |-> <<>>,
     failed |-> {}, result |-> NoFetchResult, solo |-> TRUE]

FetchInFlight(f) == fetch[f].pc \notin {"idle", "done"}

QuietFetch ==
    /\ emailRaw = {}
    /\ fetch = [f \in Fetchers |-> IdleFetch]
    /\ fetches = 0
    /\ lastFetch = [o \in Owners |-> NoLast]
    /\ events = {}

\* The email_raw table holds what earlier runs of the service stored.
InitFetch ==
    /\ emailRaw \in {{}, {[id |-> 1, userId |-> 1, gmailId |-> 1]}}
    /\ fetch = [f \in Fetchers |-> IdleFetch]
    /\ fetches = 0
    /\ lastFetch = [o \in Owners |-> NoLast]
    /\ events = {}

\* the return statement of fetchAndStoreEmails, with the bookkeeping of the
\* owner's last finished call
FetchReturn(f, loc, res) ==
    /\ fetch' = [fetch EXCEPT ![f] = [IdleFetch EXCEPT !.pc = "done", !.result = res]]
    /\ lastFetch' = [lastFetch EXCEPT ![loc.userId] =
          IF loc.userId \in Owners /\ res.success /\ loc.solo
          THEN [valid |-> TRUE, messages |-> loc.messages,
                storedCount |-> loc.storedCount, skippedCount |-> loc.skippedCount]
          ELSE NoLast]

\* fetchAndStoreEmails(userId): the call, up to userRepository.findOne
FetchCall(f, o) ==
    /\ ~FetchInFlight(f)
    /\ fetches < MaxFetches
    /\ fetches' = fetches + 1
    /\ LET others == {g \in Fetchers \ {f} : FetchInFlight(g) /\ fetch[g].userId = o}
       IN fetch' = [g \in Fetchers |->
             IF g = f
             THEN [IdleFetch EXCEPT !.pc = "user", !.userId = o, !.solo = (others = {})]
             ELSE IF g \in others THEN [fetch[g] EXCEPT !.solo = FALSE]
             ELSE fetch[g]]
    /\ UNCHANGED <<emailRaw, lastFetch, events>>
    /\ UNCHANGED exceptFetch

\* lines 239-242: the user row; then getGmailClient is called
FetchUser(f) ==
    /\ fetch[f].pc = "user"
    /\ IF fetch[f].userId \notin Owners
       THEN /\ fetch' = [fetch EXCEPT ![f] =
                          [IdleFetch EXCEPT !.pc = "done", !.result = Failure("User not found")]]
            /\ UNCHANGED lastFetch
       ELSE /\ fetch' = [fetch EXCEPT ![f].pc = "cred"]
            /\ UNCHANGED lastFetch
    /\ UNCHANGED <<emailRaw, fetches, events>>
    /\ UNCHANGED exceptFetch

\* lines 468-508: the outer catch.  An error thrown by getValidAccessToken or
\* by the database carries no code: the message is the prefix 'Failed to
\* fetch emails: ' followed by the error's own message
OuterCatchMessage(err) ==
    CASE err = ErrNotFound ->
            "Failed to fetch emails: Gmail token not found. Please re-authenticate with Google."
      [] err = ErrReauth ->
            "Failed to fetch emails: Failed to refresh access token. Please re-authenticate."
      [] OTHER -> "Failed to fetch emails: database error"

\* mutant: a credential failure answered as an empty success
FetchCred_EmptySuccess(f, err) ==
    /\ fetch[f].pc = "cred"
    /\ IF err = NoResult
       THEN /\ fetch' = [fetch EXCEPT ![f].pc = "list"]
            /\ UNCHANGED lastFetch
       ELSE FetchReturn(f, fetch[f], Success(fetch[f]))
    /\ UNCHANGED <<emailRaw, fetches, events>>
    /\ UNCHANGED exceptFetch

\* line 245: getGmailClient -> getValidAccessToken returns a token (err =
\* NoResult), or throws ErrNotFound or ErrReauth into the outer catch
FetchCred(f, err) ==
    /\ fetch[f].pc = "cred"
    /\ IF err = NoResult
       THEN /\ fetch' = [fetch EXCEPT ![f].pc = "list"]
            /\ UNCHANGED lastFetch
       ELSE FetchReturn(f, fetch[f], Failure(OuterCatchMessage(err)))
    /\ UNCHANGED <<emailRaw, fetches, events>>
    /\ UNCHANGED exceptFetch

\* lines 248-274: users.messages.list returns the listing or fails
FetchListMessage(outcome) ==
    CASE outcome = "401" -> "Invalid or expired access token. Please re-authenticate."
      [] outcome = "403" -> "Gmail API access denied. Please grant Gmail permissions."
      [] outcome = "network" -> "Network error. Cannot connect to Gmail API."
      [] OTHER -> "Failed to fetch emails"

FetchList(f, outcome, listing) ==
    /\ fetch[f].pc = "list"
    /\ IF outcome = "ok"
       THEN /\ fetch' = [fetch EXCEPT ![f].pc = "loop", ![f].messages = listing, ![f].i = 1]
            /\ UNCHANGED lastFetch
       ELSE /\ listing = <<>>
            /\ FetchReturn(f, fetch[f], Failure(FetchListMessage(outcome)))
    /\ UNCHANGED <<emailRaw, fetches, events>>
    /\ UNCHANGED exceptFetch

\* mutant: an existing message is passed over without counting it
FetchExisting_NoCount(f, dbOk) ==
    /\ fetch[f].pc = "loop"
    /\ fetch[f].i <= Len(fetch[f].messages)
    /\ LET loc == fetch[f]
           id == loc.messages[loc.i]
       IN IF id # 0 /\ ~dbOk
          THEN FetchReturn(f, loc, Failure(OuterCatchMessage(DbError)))
          ELSE /\ IF id = 0 \/ \E r \in emailRaw : r.gmailId = id /\ r.userId = loc.userId
                  THEN fetch' = [fetch EXCEPT ![f].i = loc.i + 1]
                  ELSE fetch' = [fetch EXCEPT ![f].pc = "get"]
               /\ UNCHANGED lastFetch
    /\ UNCHANGED <<emailRaw, fetches, events>>
    /\ UNCHANGED exceptFetch

\* lines 280-291: next message; one without id is passed over; findOne by
\* (gmailId, userId) decides between skipping and retrieving.  The findOne
\* stands outside the try of line 293: when it throws, the error reaches the
\* outer catch and the call returns a failure
FetchExisting(f, dbOk) ==
    /\ fetch[f].pc = "loop"
    /\ fetch[f].i <= Len(fetch[f].messages)
    /\ LET loc == fetch[f]
           id == loc.messages[loc.i]
       IN IF id # 0 /\ ~dbOk
          THEN FetchReturn(f, loc, Failure(OuterCatchMessage(DbError)))
          ELSE /\ IF id = 0
                  THEN fetch' = [fetch EXCEPT ![f].i = loc.i + 1]
                  ELSE IF \E r \in emailRaw : r.gmailId = id /\ r.userId = loc.userId
                  THEN fetch' = [fetch EXCEPT ![f].i = loc.i + 1,
                                              ![f].skippedCount = loc.skippedCount + 1]
                  ELSE fetch' = [fetch EXCEPT ![f].pc = "get"]
               /\ UNCHANGED lastFetch
    /\ UNCHANGED <<emailRaw, fetches, events>>
    /\ UNCHANGED exceptFetch

\* lines 305-309, 434-447: the catch blocks inside the loop log the error and
\* go on with the next message
ItemFailed(loc) ==
    [loc EXCEPT !.pc = "loop", !.i = loc.i + 1,
                !.failed = loc.failed \cup {loc.messages[loc.i]}]

\* mutant: a failed retrieval ends the call with a failure
FetchGet_Abort(f, ok) ==
    /\ fetch[f].pc = "get"
    /\ IF ok
       THEN /\ fetch' = [fetch EXCEPT ![f].pc = "save"]
            /\ UNCHANGED lastFetch
       ELSE FetchReturn(f, fetch[f], Failure(OuterCatchMessage(DbError)))
    /\ UNCHANGED <<emailRaw, fetches, events>>
    /\ UNCHANGED exceptFetch

\* lines 293-317 and 441-447: users.messages.get; a failure, a missing
\* payload or a parse error passes the message over
FetchGet(f, ok) ==
    /\ fetch[f].pc = "get"
    /\ IF ok
       THEN fetch' = [fetch EXCEPT ![f].pc = "save"]
       ELSE fetch' = [fetch EXCEPT ![f] = ItemFailed(fetch[f])]
    /\ UNCHANGED <<emailRaw, fetches, lastFetch, events>>
    /\ UNCHANGED exceptFetch

\* mutant: gmailId without the unique constraint
InsertRejected_NoUnique(rows, row) == FALSE

\* the INSERT of emailRawRepository.save: gmailId is a unique column
InsertRejected(rows, row) == \E r \in rows : r.gmailId = row.gmailId

\* mutant: the id of a message is recorded for the event although its
\* insert failed
FetchSave_AlwaysRecord(f, dbOk) ==
    /\ fetch[f].pc = "save"
    /\ LET loc == fetch[f]
           row == [id |-> Cardinality(emailRaw) + 1, userId |-> loc.userId,
                   gmailId |-> loc.messages[loc.i]]
       IN /\ emailRaw' = IF InsertRejected(emailRaw, row) \/ ~dbOk THEN emailRaw
                          ELSE emailRaw \cup {row}
          /\ fetch' = [fetch EXCEPT ![f].pc = "loop", ![f].i = loc.i + 1,
                          ![f].storedCount = loc.storedCount + 1,
                          ![f].storedEmailIds = Append(loc.storedEmailIds, row.id)]
    /\ UNCHANGED <<fetches, lastFetch, events>>
    /\ UNCHANGED exceptFetch

\* lines 402-440: emailRawRepository.save; a rejected or failed insert is
\* logged and the loop goes on
FetchSave(f, dbOk) ==
    /\ fetch[f].pc = "save"
    /\ LET loc == fetch[f]
           row == [id |-> Cardinality(emailRaw) + 1, userId |-> loc.userId,
                   gmailId |-> loc.messages[loc.i]]
       IN IF InsertRejected(emailRaw, row)
          THEN /\ fetch' = [fetch EXCEPT ![f] = ItemFailed(loc)]
               /\ UNCHANGED emailRaw
          ELSE IF ~dbOk
          THEN /\ fetch' = [fetch EXCEPT ![f] = ItemFailed(loc)]
               /\ UNCHANGED emailRaw
          ELSE /\ emailRaw' = emailRaw \cup {row}
               /\ fetch' = [fetch EXCEPT ![f].pc = "loop", ![f].i = loc.i + 1,
                               ![f].storedCount = loc.storedCount + 1,
                               ![f].storedEmailIds = Append(loc.storedEmailIds, row.id)]
    /\ UNCHANGED <<fetches, lastFetch, events>>
    /\ UNCHANGED exceptFetch

\* lines 450-467: after the loop, publish when something was stored, then
\* return success; a failed publish is logged only
FetchLoopEnd(f) ==
    /\ fetch[f].pc = "loop"
    /\ fetch[f].i > Len(fetch[f].messages)
    /\ LET loc == fetch[f]
       IN IF loc.storedCount > 0 /\ Len(loc.storedEmailIds) > 0
          THEN /\ fetch' = [fetch EXCEPT ![f].pc = "publish"]
               /\ UNCHANGED lastFetch
          ELSE FetchReturn(f, loc, Success(loc))
    /\ UNCHANGED <<emailRaw, fetches, events>>
    /\ UNCHANGED exceptFetch

\* mutant: a failed publish fails the call
FetchPublish_Propagate(f, ok) ==
    /\ fetch[f].pc = "publish"
    /\ events' = IF ok
                 THEN events \cup {[userId |-> fetch[f].userId,
                                    emailIds |-> fetch[f].storedEmailIds]}
                 ELSE events
    /\ FetchReturn(f, fetch[f],
                   IF ok THEN Success(fetch[f]) ELSE Failure(OuterCatchMessage(DbError)))
    /\ UNCHANGED <<emailRaw, fetches>>
    /\ UNCHANGED exceptFetch

\* lines 452-460 and KafkaService.publishEmailFetchedEvent: producer.send
\* delivers the message or throws; the throw is caught and logged
FetchPublish(f, ok) ==
    /\ fetch[f].pc = "publish"
    /\ events' = IF ok
                 THEN events \cup {[userId |-> fetch[f].userId,
                                    emailIds |-> fetch[f].storedEmailIds]}
                 ELSE events
    /\ FetchReturn(f, fetch[f], Success(fetch[f]))
    /\ UNCHANGED <<emailRaw, fetches>>
    /\ UNCHANGED exceptFetch

NextFetch ==
    \/ \E f \in Fetchers, o \in Owners \cup {UnknownUser} : FetchCall(f, o)
    \/ \E f \in Fetchers : FetchUser(f)
    \/ \E f \in Fetchers, err \in {NoResult, ErrNotFound, ErrReauth} : FetchCred(f, err)
    \/ \E f \in Fetchers, outcome \in {"ok", "401", "403", "network", "other"},
          listing \in Listings : FetchList(f, outcome, listing)
    \/ \E f \in Fetchers, dbOk \in BOOLEAN : FetchExisting(f, dbOk)
    \/ \E f \in Fetchers, ok \in BOOLEAN : FetchGet(f, ok)
    \/ \E f \in Fetchers, dbOk \in BOOLEAN : FetchSave(f, dbOk)
    \/ \E f \in Fetchers : FetchLoopEnd(f)
    \/ \E f \in Fetchers, ok \in BOOLEAN : FetchPublish(f, ok)

QuietCred ==
    /\ InitCred
    /\ gmailTokens = [o \in Owners |-> NoRow]

(***************************************************************************)
(* Enrichment pipeline: AIProcessorService.processEmails / processEmail.   *)
(***************************************************************************)
Workers == {"w1", "w2"}
\* email_raw as earlier fetches left it: item 2 is stored, item 1 may be
SeedRows == {[id |-> 1, userId |-> 1, gmailId |-> 1], [id |-> 2, userId |-> 2, gmailId |-> 2]}
Seeds == {SeedRows, {r \in SeedRows : r.id = 2}}

\* the id lists passed to processEmails: the non-empty sublists of this one
BatchItems == <<1, 2>>
Batches == SubSeqs(BatchItems) \ {<<>>}

IdleWork ==
    [pc |-> "idle", emailIds |-> <<>>, k |-> 1, userId |-> 0, savedSummary |-> <<>>,
     failed |-> {}, pre |-> {}]

Running(w) == work[w].pc \notin {"idle", "done", "threw"}

SummaryRows(id) == {r \in emailSummary : r.emailRawId = id}
MetadataRows(id) == {r \in emailMetadata : r.emailRawId = id}

\* generated primary key of a new row: fresh, never reused; written as the
\* pair (item, ordinal among the item's rows)
NewKey(rows, id) == <<id, Cardinality(rows) + 1>>

\* the ids of the stored items
RawIds == {r.id : r \in emailRaw}

\* the item the run is at
Current(w) == work[w].emailIds[work[w].k]

\* processEmail lines 68-167: the run is past the short-circuit, between the
\* call of summarizeEmail and the last save
Acting(w) ==
    work[w].pc \in {"summarize", "metadata", "saveSummary", "saveMetadata", "embed", "store",
                    "saveQdrantId"}

QuietEnrich ==
    /\ emailSummary = {}
    /\ emailMetadata = {}
    /\ points = {}
    /\ work = [w \in Workers |-> IdleWork]
    /\ attempted = {}
    /\ everOverlap = FALSE

\* stored items, no fetch in progress
StoredItems(rows) ==
    /\ emailRaw = rows
    /\ fetch = [f \in Fetchers |-> IdleFetch]
    /\ fetches = 0
    /\ lastFetch = [o \in Owners |-> NoLast]
    /\ events = {}

\* processEmails(emailIds) lines 29-32: the run starts with the first item
ProcStart(w, batch) ==
    /\ ~Running(w)
    /\ LET others == {v \in Workers \ {w} : Running(v)}
       IN /\ work' = [v \in Workers |->
                IF v = w
                THEN [IdleWork EXCEPT !.pc = "find", !.emailIds = batch,
                         !.pre = {id \in Range(batch) : SummaryRows(id) # {}}]
                ELSE work[v]]
          /\ everOverlap' = (everOverlap \/ others # {})
    /\ UNCHANGED <<emailSummary, emailMetadata, points, attempted>>

\* processEmails(emailIds): the call from POST /ai/process or from a listener
ProcCall(w, batch) ==
    /\ ProcStart(w, batch)
    /\ UNCHANGED exceptEnrich

\* processEmails lines 32-39: processEmail returned for the current item
ItemDone(loc) == [loc EXCEPT !.pc = "find", !.k = loc.k + 1]

\* mutant: processEmails without the try/catch around processEmail
ItemThrew_Abort(loc) == [loc EXCEPT !.pc = "threw", !.failed = loc.failed \cup {loc.emailIds[loc.k]}]

\* processEmails lines 35-38: processEmail threw for the current item; the
\* error is logged and the loop goes on
ItemThrew(loc) ==
    [loc EXCEPT !.pc = "find", !.k = loc.k + 1,
                !.failed = loc.failed \cup {loc.emailIds[loc.k]}]

\* processEmails line 41: the loop is over
ProcReturn(w) ==
    /\ work[w].pc = "find"
    /\ work[w].k > Len(work[w].emailIds)
    /\ work' = [work EXCEPT ![w] = [IdleWork EXCEPT !.pc = "done"]]
    /\ attempted' = attempted \cup {id \in Range(work[w].emailIds) : \E r \in emailRaw : r.id = id}
    /\ UNCHANGED <<emailSummary, emailMetadata, points, everOverlap>>
    /\ UNCHANGED exceptEnrich

\* processEmail lines 49-56: load the item; a missing item is passed over
ProcFindEmail(w) ==
    /\ work[w].pc = "find"
    /\ work[w].k <= Len(work[w].emailIds)
    /\ LET loc == work[w]
           id == loc.emailIds[loc.k]
           found == {r \in emailRaw : r.id = id}
       IN IF found = {}
          THEN work' = [work EXCEPT ![w] = ItemDone(loc)]
          ELSE work' = [work EXCEPT ![w] = [loc EXCEPT !.pc = "exists",
                            !.userId = (CHOOSE r \in found : TRUE).userId]]
    /\ UNCHANGED <<emailSummary, emailMetadata, points, attempted, everOverlap>>
    /\ UNCHANGED exceptEnrich

\* mutant: no short-circuit on an existing summary
ProcFindSummary_NoSkip(w) ==
    /\ work[w].pc = "exists"
    /\ work' = [work EXCEPT ![w].pc = "summarize"]
    /\ UNCHANGED <<emailSummary, emailMetadata, points, attempted, everOverlap>>
    /\ UNCHANGED exceptEnrich

\* processEmail lines 58-77: an item that has a summary row is passed over;
\* otherwise summarizeEmail is called
ProcFindSummary(w) ==
    /\ work[w].pc = "exists"
    /\ LET loc == work[w]
           id == loc.emailIds[loc.k]
       IN IF SummaryRows(id) # {}
          THEN work' = [work EXCEPT ![w] = ItemDone(loc)]
          ELSE work' = [work EXCEPT ![w].pc = "summarize"]
    /\ UNCHANGED <<emailSummary, emailMetadata, points, attempted, everOverlap>>
    /\ UNCHANGED exceptEnrich

\* mutant: a summarization that fails leaves a summary row for the item
ProcSummarize_SaveOnFailure(w, ok) ==
    /\ work[w].pc = "summarize"
    /\ LET loc == work[w]
           id == loc.emailIds[loc.k]
           row == [id |-> NewKey(SummaryRows(id), id), emailRawId |-> id, qdrantId |-> 0]
       IN IF ok
          THEN /\ work' = [work EXCEPT ![w].pc = "metadata"]
               /\ UNCHANGED emailSummary
          ELSE /\ work' = [work EXCEPT ![w] = ItemThrew(loc)]
               /\ emailSummary' = emailSummary \cup {row}
    /\ UNCHANGED <<emailMetadata, points, attempted, everOverlap>>
    /\ UNCHANGED exceptEnrich

\* gemini.service.ts summarizeEmail: returns a summary, or throws (API not
\* configured, API error, unparsable JSON); then extractMetadata is called
ProcSummarize(w, ok) ==
    /\ work[w].pc = "summarize"
    /\ work' = [work EXCEPT ![w] = IF ok THEN [work[w] EXCEPT !.pc = "metadata"]
                                   ELSE ItemThrew(work[w])]
    /\ UNCHANGED <<emailSummary, emailMetadata, points, attempted, everOverlap>>
    /\ UNCHANGED exceptEnrich

\* gemini.service.ts extractMetadata: returns the metadata or its defaults
\* (its catch block); then emailSummaryRepository.save is called
ProcExtractMetadata(w) ==
    /\ work[w].pc = "metadata"
    /\ work' = [work EXCEPT ![w].pc = "saveSummary"]
    /\ UNCHANGED <<emailSummary, emailMetadata, points, attempted, everOverlap>>
    /\ UNCHANGED exceptEnrich

\* processEmail lines 105-115: INSERT into email_summary (emailRawId is not
\* a unique column); a database error throws
ProcSaveSummary(w, dbOk) ==
    /\ work[w].pc = "saveSummary"
    /\ LET loc == work[w]
           id == loc.emailIds[loc.k]
           row == [id |-> NewKey(SummaryRows(id), id), emailRawId |-> id, qdrantId |-> 0]
       IN IF dbOk
          THEN /\ emailSummary' = emailSummary \cup {row}
               /\ work' = [work EXCEPT ![w].pc = "saveMetadata", ![w].savedSummary = row.id]
          ELSE /\ work' = [work EXCEPT ![w] = ItemThrew(loc)]
               /\ UNCHANGED emailSummary
    /\ UNCHANGED <<emailMetadata, points, attempted, everOverlap>>
    /\ UNCHANGED exceptEnrich

\* processEmail lines 117-131: INSERT into email_metadata; a database error
\* throws
ProcSaveMetadata(w, dbOk) ==
    /\ work[w].pc = "saveMetadata"
    /\ LET loc == work[w]
           id == loc.emailIds[loc.k]
           row == [id |-> NewKey(MetadataRows(id), id), emailRawId |-> id]
       IN IF dbOk
          THEN /\ emailMetadata' = emailMetadata \cup {row}
               /\ work' = [work EXCEPT ![w].pc = "embed"]
          ELSE /\ work' = [work EXCEPT ![w] = ItemThrew(loc)]
               /\ UNCHANGED emailMetadata
    /\ UNCHANGED <<emailSummary, points, attempted, everOverlap>>
    /\ UNCHANGED exceptEnrich

\* mutant: processEmail without the try/catch around the embedding steps
ProcEmbed_Propagate(w, ok) ==
    /\ work[w].pc = "embed"
    /\ work' = [work EXCEPT ![w] = IF ok THEN [work[w] EXCEPT !.pc = "store"]
                                   ELSE ItemThrew(work[w])]
    /\ UNCHANGED <<emailSummary, emailMetadata, points, attempted, everOverlap>>
    /\ UNCHANGED exceptEnrich

\* processEmail lines 135-143 and 163-167: generateEmbedding; a failure or an
\* empty embedding is caught inside processEmail
ProcEmbed(w, ok) ==
    /\ work[w].pc = "embed"
    /\ work' = [work EXCEPT ![w] = IF ok THEN [work[w] EXCEPT !.pc = "store"]
                                   ELSE ItemDone(work[w])]
    /\ UNCHANGED <<emailSummary, emailMetadata, points, attempted, everOverlap>>
    /\ UNCHANGED exceptEnrich

\* QdrantService.storeEmailEmbedding: the point id must be a positive integer
ValidPointId(id) == id \in Nat /\ id > 0

\* QdrantService.storeEmailEmbedding: upsert of the point with this id
Upsert(pts, id, userId) == {q \in pts : q.id # id} \cup {[id |-> id, userId |-> userId]}

\* mutant: the point id is written to the summary row whether the upsert
\* succeeded or not
ProcStore_Unchecked(w, ok) ==
    /\ work[w].pc = "store"
    /\ LET loc == work[w]
           id == loc.emailIds[loc.k]
       IN IF ok /\ ValidPointId(id)
          THEN /\ points' = Upsert(points, id, loc.userId)
               /\ work' = [work EXCEPT ![w].pc = "saveQdrantId"]
          ELSE /\ work' = [work EXCEPT ![w].pc = "saveQdrantId"]
               /\ UNCHANGED points
    /\ UNCHANGED <<emailSummary, emailMetadata, attempted, everOverlap>>
    /\ UNCHANGED exceptEnrich

\* processEmail lines 145-156: storeEmailEmbedding; a failure is caught
\* inside processEmail
ProcStore(w, ok) ==
    /\ work[w].pc = "store"
    /\ LET loc == work[w]
           id == loc.emailIds[loc.k]
       IN IF ok /\ ValidPointId(id)
          THEN /\ points' = Upsert(points, id, loc.userId)
               /\ work' = [work EXCEPT ![w].pc = "saveQdrantId"]
          ELSE /\ work' = [work EXCEPT ![w] = ItemDone(loc)]
               /\ UNCHANGED points
    /\ UNCHANGED <<emailSummary, emailMetadata, attempted, everOverlap>>
    /\ UNCHANGED exceptEnrich

\* processEmail lines 158-160: UPDATE of the saved summary row with the
\* point id; a failure is caught inside processEmail
ProcSaveQdrantId(w, dbOk) ==
    /\ work[w].pc = "saveQdrantId"
    /\ LET loc == work[w]
           id == loc.emailIds[loc.k]
       IN /\ emailSummary' =
                IF dbOk
                THEN {IF r.id = loc.savedSummary THEN [r EXCEPT !.qdrantId = id] ELSE r :
                         r \in emailSummary}
                ELSE emailSummary
          /\ work' = [work EXCEPT ![w] = ItemDone(loc)]
    /\ UNCHANGED <<emailMetadata, points, attempted, everOverlap>>
    /\ UNCHANGED exceptEnrich

NextEnrich ==
    \/ \E w \in Workers, batch \in Batches : ProcCall(w, batch)
    \/ \E w \in Workers : ProcReturn(w)
    \/ \E w \in Workers : ProcFindEmail(w)
    \/ \E w \in Workers : ProcFindSummary(w)
    \/ \E w \in Workers, ok \in BOOLEAN : ProcSummarize(w, ok)
    \/ \E w \in Workers : ProcExtractMetadata(w)
    \/ \E w \in Workers, dbOk \in BOOLEAN : ProcSaveSummary(w, dbOk)
    \/ \E w \in Workers, dbOk \in BOOLEAN : ProcSaveMetadata(w, dbOk)
    \/ \E w \in Workers, ok \in BOOLEAN : ProcEmbed(w, ok)
    \/ \E w \in Workers, ok \in BOOLEAN : ProcStore(w, ok)
    \/ \E w \in Workers, dbOk \in BOOLEAN : ProcSaveQdrantId(w, dbOk)

(***************************************************************************)
(* Semantic search: AIController.semanticSearch over                       *)
(* QdrantService.searchSimilarEmails.  Scores are in thousandths.          *)
(***************************************************************************)
SearchRows == SeedRows \cup {[id |-> 3, userId |-> 1, gmailId |-> 3]}
PointIds == {r.id : r \in SearchRows}
Scores == {50, 400, 505, 996}
ScoreFns == [PointIds -> Scores]
Limits == {0, 1, 2}
\* the items whose deletion is explored
DeletableIds == {3}
NoScore == [i \in PointIds |-> 0]

IdleSearch ==
    [pc |-> "idle", userId |-> 0, limit |-> 0, minScore |-> MinScore, score |-> NoScore,
     hits |-> <<>>, results |-> <<>>, message |-> ""]

QuietSearch == srch = IdleSearch

\* the orders Qdrant may return these points in: best score first, points of
\* equal score in any order
Ranked(pts, score) ==
    {q \in [1..Cardinality(pts) -> pts] :
        /\ \A i, j \in DOMAIN q : i # j => q[i] # q[j]
        /\ \A i, j \in DOMAIN q : i < j => score[q[i].id] >= score[q[j].id]}

Prefix(q, n) == SubSeq(q, 1, IF n < Len(q) THEN n ELSE Len(q))

Hit(p, score) == [id |-> p.id, score |-> score[p.id], payload |-> [emailRawId |-> p.id, userId |-> p.userId]]

\* mutant: the search without the filter on the payload's userId
SearchSimilarEmails_NoFilter(pts, userId, limit, score, threshold) ==
    {[i \in DOMAIN q |-> Hit(q[i], score)] :
        q \in {Prefix(r, limit) : r \in Ranked({p \in pts : score[p.id] >= threshold}, score)}}

\* QdrantService.searchSimilarEmails: the best `limit` points among those
\* whose payload userId is the given one (and, with the gRPC client, whose
\* score reaches the threshold)
SearchSimilarEmails(pts, userId, limit, score, threshold) ==
    {[i \in DOMAIN q |-> Hit(q[i], score)] :
        q \in {Prefix(r, limit) :
                 r \in Ranked({p \in pts : p.userId = userId /\ score[p.id] >= threshold}, score)}}

\* Math.round(score * 100) / 100
Round2(x) == ((x + 5) \div 10) * 10

\* processEmail lines 145-156 as seen from the index: the pipeline stores the
\* embedding of a stored item, with the item's userId in the payload
StoreEmailEmbedding(id) ==
    /\ \E r \in emailRaw :
          /\ r.id = id
          /\ ValidPointId(id)
          /\ points' = Upsert(points, id, r.userId)
    /\ points' # points
    /\ UNCHANGED srch
    /\ UNCHANGED exceptSearch

\* semanticSearch lines 308-321: the request of user o; a missing query is
\* answered at once
SearchCall(o, limit, hasQuery) ==
    /\ srch.pc \in {"idle", "done"}
    /\ srch' = IF hasQuery
               THEN [IdleSearch EXCEPT !.pc = "embed", !.userId = o,
                        !.limit = IF limit = 0 THEN DefaultLimit ELSE limit]
               ELSE [IdleSearch EXCEPT !.pc = "done", !.userId = o,
                        !.message = "Search query is required"]
    /\ UNCHANGED points
    /\ UNCHANGED exceptSearch

\* fuzzySearch (GmailController): the same search with its own default and
\* maximum limit and its own minimum score
FuzzySearchCall(o, limit, hasQuery) ==
    /\ srch.pc \in {"idle", "done"}
    /\ srch' = IF hasQuery
               THEN [IdleSearch EXCEPT !.pc = "embed", !.userId = o, !.minScore = FuzzyMinScore,
                        !.limit = IF limit = 0 THEN FuzzyDefaultLimit
                                  ELSE IF limit < FuzzyMaxLimit THEN limit ELSE FuzzyMaxLimit]
               ELSE [IdleSearch EXCEPT !.pc = "done", !.userId = o, !.minScore = FuzzyMinScore,
                        !.message = "Search query is required"]
    /\ UNCHANGED points
    /\ UNCHANGED exceptSearch

\* GmailService.deleteEmail: the row of the item is deleted; its point stays
\* in the index
DeleteEmail(o, id) ==
    /\ \E r \in emailRaw : r.id = id /\ r.userId = o
    /\ emailRaw' = {r \in emailRaw : r.id # id}
    /\ UNCHANGED <<fetch, fetches, lastFetch, events>>
    /\ UNCHANGED <<credVars, enrichVars, searchVars, listenVars, schedVars, utilVars, fnVars>>

\* semanticSearch line 321: generateEmbedding returns the query vector, which
\* fixes the score of every point, or throws
SearchEmbed(ok, score) ==
    /\ srch.pc = "embed"
    /\ srch' = IF ok THEN [srch EXCEPT !.pc = "qdrant", !.score = score]
               ELSE [srch EXCEPT !.pc = "done", !.message = "Search failed"]
    /\ UNCHANGED points
    /\ UNCHANGED exceptSearch

\* semanticSearch lines 324-328: searchSimilarEmails with limit * 2
SearchQdrant(ok, grpc, hits) ==
    /\ srch.pc = "qdrant"
    /\ hits \in SearchSimilarEmails(points, srch.userId, srch.limit * 2, srch.score,
                                    IF grpc THEN QdrantScoreThreshold ELSE 0)
    /\ srch' = IF ok THEN [srch EXCEPT !.pc = "enrich", !.hits = hits]
               ELSE [srch EXCEPT !.pc = "done", !.message = "Qdrant search failed"]
    /\ UNCHANGED points
    /\ UNCHANGED exceptSearch

\* mutant: the response keeps the hits that have no email_raw row
SearchEnrich_KeepMissing ==
    /\ srch.pc = "enrich"
    /\ LET AboveMin(h) == h.score > srch.minScore
           HasEmail(x) == x.email # {}
           kept == Prefix(SelectSeq(srch.hits, AboveMin), srch.limit)
           joined == [i \in DOMAIN kept |->
                        [email |-> {r \in emailRaw : r.id = kept[i].payload.emailRawId},
                         relevanceScore |-> Round2(kept[i].score),
                         payload |-> kept[i].payload]]
       IN srch' = [srch EXCEPT !.pc = "done", !.results = joined]
    /\ UNCHANGED points
    /\ UNCHANGED exceptSearch

\* semanticSearch lines 331-389: keep the hits above the minimum score, take
\* the first `limit`, join each with its email_raw row and drop those that
\* have none
SearchEnrich ==
    /\ srch.pc = "enrich"
    /\ LET AboveMin(h) == h.score > srch.minScore
           HasEmail(x) == x.email # {}
           kept == Prefix(SelectSeq(srch.hits, AboveMin), srch.limit)
           joined == [i \in DOMAIN kept |->
                        [email |-> {r \in emailRaw : r.id = kept[i].payload.emailRawId},
                         relevanceScore |-> Round2(kept[i].score),
                         payload |-> kept[i].payload]]
       IN srch' = [srch EXCEPT !.pc = "done", !.results = SelectSeq(joined, HasEmail)]
    /\ UNCHANGED points
    /\ UNCHANGED exceptSearch

AllHits == UNION {SearchSimilarEmails(P, o, 2 * DefaultLimit, sc, 0) :
                     P \in SUBSET {[id |-> r.id, userId |-> r.userId] : r \in SearchRows},
                     o \in Owners, sc \in ScoreFns}

NextSearch ==
    \/ \E id \in PointIds : StoreEmailEmbedding(id)
    \/ \E o \in Owners, limit \in Limits, hasQuery \in BOOLEAN : SearchCall(o, limit, hasQuery)
    \/ \E o \in Owners, limit \in Limits, hasQuery \in BOOLEAN : FuzzySearchCall(o, limit, hasQuery)
    \/ \E o \in Owners, id \in DeletableIds : DeleteEmail(o, id)
    \/ \E ok \in BOOLEAN, score \in ScoreFns : SearchEmbed(ok, score)
    \/ \E ok \in BOOLEAN, grpc \in BOOLEAN, hits \in AllHits : SearchQdrant(ok, grpc, hits)
    \/ SearchEnrich

InitSpecSearch ==
    /\ QuietFn
    /\ QuietCred /\ StoredItems(SearchRows) /\ QuietEnrich /\ QuietSearch /\ QuietListen
    /\ QuietSched /\ QuietUtil

SpecSearch == InitSpecSearch /\ [][NextSearch]_vars

(***************************************************************************)
(* Listener: AIConsumer.handleMessage, run by the broker client for each   *)
(* message of the topic.  The client moves on to the next message when the *)
(* handler's promise resolves and delivers the same message again when it  *)
(* is rejected.                                                            *)
(***************************************************************************)
\* the worker that runs the listener's processEmails
ListenerWorker == "w1"

\* message values: none; not JSON; JSON without emailIds; JSON whose emailIds
\* is a number; the event published by the fetcher
BadKinds == {"empty", "malformed", "noIds", "notList"}
TopicMessages ==
    {[kind |-> x, emailIds |-> <<>>] : x \in BadKinds} \cup
    {[kind |-> "event", emailIds |-> b] : b \in Batches}

Topics == UNION {[1..n -> TopicMessages] : n \in 0..MaxTopic}

InitListen ==
    /\ topic \in Topics
    /\ offset = 0
    /\ lsn = IdleListener
    /\ deliveries = 0
    /\ rejected = FALSE

\* mutant: handleMessage without its try/catch
HandleMessageCatch_Rethrow(kind) == "rejected"

\* handleMessage lines 68-71: the catch block logs the error and returns
HandleMessageCatch(kind) == "resolved"

\* handleMessage lines 54-66, up to the await of processEmails: an empty
\* value returns; JSON.parse of a malformed value throws; emailIds.length of
\* a missing id list throws; processEmails of an id list that is no list
\* throws at its for-of
ListenDeliver ==
    /\ lsn.pc = "idle"
    /\ offset < Len(topic)
    /\ deliveries' = deliveries + 1
    /\ LET msg == topic[offset + 1]
       IN IF msg.kind = "event"
          THEN /\ ProcStart(ListenerWorker, msg.emailIds)
               /\ lsn' = [pc |-> "processing", outcome |-> "none"]
          ELSE /\ lsn' = [pc |-> "settled",
                          outcome |-> IF msg.kind = "empty" THEN "resolved"
                                      ELSE HandleMessageCatch(msg.kind)]
               /\ UNCHANGED enrichVars
    /\ UNCHANGED <<topic, offset, rejected>>
    /\ UNCHANGED exceptListen

\* handleMessage line 67: processEmails has returned or thrown
ListenResume ==
    /\ lsn.pc = "processing"
    /\ work[ListenerWorker].pc \in {"done", "threw"}
    /\ lsn' = [pc |-> "settled",
               outcome |-> IF work[ListenerWorker].pc = "threw"
                           THEN HandleMessageCatch("event") ELSE "resolved"]
    /\ UNCHANGED <<topic, offset, deliveries, rejected>>
    /\ UNCHANGED enrichVars
    /\ UNCHANGED exceptListen

\* onModuleInit lines 38-42: eachMessage awaits handleMessage; the client
\* advances past the message when the promise resolved and keeps its
\* position, to deliver the message again, when it was rejected
ListenCommit ==
    /\ lsn.pc = "settled"
    /\ lsn' = IdleListener
    /\ IF lsn.outcome = "resolved"
       THEN offset' = offset + 1 /\ UNCHANGED rejected
       ELSE rejected' = TRUE /\ UNCHANGED offset
    /\ UNCHANGED <<topic, deliveries>>
    /\ UNCHANGED enrichVars
    /\ UNCHANGED exceptListen

NextListen ==
    \/ ListenDeliver
    \/ ListenResume
    \/ ListenCommit
    \/ ProcReturn(ListenerWorker)
    \/ ProcFindEmail(ListenerWorker)
    \/ ProcFindSummary(ListenerWorker)
    \/ \E ok \in BOOLEAN : ProcSummarize(ListenerWorker, ok)
    \/ ProcExtractMetadata(ListenerWorker)
    \/ \E dbOk \in BOOLEAN : ProcSaveSummary(ListenerWorker, dbOk)
    \/ \E dbOk \in BOOLEAN : ProcSaveMetadata(ListenerWorker, dbOk)
    \/ \E ok \in BOOLEAN : ProcEmbed(ListenerWorker, ok)
    \/ \E ok \in BOOLEAN : ProcStore(ListenerWorker, ok)
    \/ \E dbOk \in BOOLEAN : ProcSaveQdrantId(ListenerWorker, dbOk)

InitSpecListen ==
    /\ QuietFn
    /\ QuietCred /\ StoredItems(SeedRows) /\ QuietEnrich /\ QuietSearch /\ InitListen
    /\ QuietSched /\ QuietUtil

SpecListen == InitSpecListen /\ [][NextListen]_vars

(***************************************************************************)
(* Snooze scheduler: GmailSchedulerService, and the restore of             *)
(* GmailService.restoreSnoozedEmails that it calls.                        *)
(***************************************************************************)
\* the snoozeUntil times of the snoozed items at start
SnoozeTimes == {0, 6, 20}
SnoozeStates ==
    {Active, [status |-> "todo", snoozeUntil |-> NoTime]} \cup
    {[status |-> "snoozed", snoozeUntil |-> t] : t \in SnoozeTimes}

InitSched ==
    /\ clock = 0
    /\ snooze \in [SnoozeItems -> SnoozeStates]
    /\ sched = NotStarted
    /\ triggered = 0
    /\ restore = [r \in RunSlots |-> IdleRestore]

\* the interval timer is due at this instant and has not fired yet
TimerDue ==
    /\ sched.running
    /\ clock = sched.startedAt + (sched.fired + 1) * RestoreInterval

\* time passes; a due timer fires before time moves on
ClockTick ==
    /\ clock < MaxClock
    /\ ~TimerDue
    /\ clock' = clock + 1
    /\ UNCHANGED <<snooze, sched, triggered, restore>>
    /\ UNCHANGED exceptSched

\* the private restoreSnoozedEmails, up to its await: a run starts in a free slot
TriggerRun(rs) ==
    LET free == {r \in RunSlots : rs[r].pc \in {"idle", "done"}}
        r == CHOOSE x \in free : \A y \in free : x <= y
    IN [rs EXCEPT ![r] = [IdleRestore EXCEPT !.pc = "find"]]

HasFreeSlot == \E r \in RunSlots : restore[r].pc \in {"idle", "done"}

\* mutant: the scheduler starts with the interval only
SchedStart_NoImmediate ==
    /\ ~sched.running /\ ~sched.stopped
    /\ sched' = [running |-> TRUE, stopped |-> FALSE, startedAt |-> clock, fired |-> 0]
    /\ UNCHANGED <<clock, snooze, triggered, restore>>
    /\ UNCHANGED exceptSched

\* onModuleInit, startScheduler: one run at once, then setInterval
SchedStart ==
    /\ ~sched.running /\ ~sched.stopped
    /\ HasFreeSlot
    /\ sched' = [running |-> TRUE, stopped |-> FALSE, startedAt |-> clock, fired |-> 0]
    /\ restore' = TriggerRun(restore)
    /\ triggered' = triggered + 1
    /\ UNCHANGED <<clock, snooze>>
    /\ UNCHANGED exceptSched

\* startScheduler lines 41-43: the interval callback
SchedInterval ==
    /\ TimerDue
    /\ HasFreeSlot
    /\ sched' = [sched EXCEPT !.fired = sched.fired + 1]
    /\ restore' = TriggerRun(restore)
    /\ triggered' = triggered + 1
    /\ UNCHANGED <<clock, snooze>>
    /\ UNCHANGED exceptSched

\* mutant: onModuleDestroy leaves the interval armed
SchedStop_KeepsInterval ==
    /\ sched.running
    /\ sched' = [sched EXCEPT !.stopped = TRUE]
    /\ UNCHANGED <<clock, snooze, triggered, restore>>
    /\ UNCHANGED exceptSched

\* onModuleDestroy: clearInterval
SchedStop ==
    /\ sched.running
    /\ sched' = [sched EXCEPT !.running = FALSE, !.stopped = TRUE]
    /\ UNCHANGED <<clock, snooze, triggered, restore>>
    /\ UNCHANGED exceptSched

\* mutant: every snoozed item is due, whatever its snoozeUntil
DueItems_IgnoreTime(rows, t) == {id \in DOMAIN rows : rows[id].status = "snoozed"}

\* the items to restore: status snoozed and snoozeUntil <= now
DueItems(rows, t) ==
    {id \in DOMAIN rows :
        /\ rows[id].status = "snoozed"
        /\ rows[id].snoozeUntil # NoTime
        /\ rows[id].snoozeUntil <= t}

\* GmailService.restoreSnoozedEmails: the query for the due items; an error
\* is caught and logged by the scheduler (lines 58-60)
RestoreFind(r, dbOk) ==
    /\ restore[r].pc = "find"
    /\ restore' = [restore EXCEPT ![r] =
          IF dbOk THEN [restore[r] EXCEPT !.pc = "save", !.found = DueItems(snooze, clock)]
          ELSE [IdleRestore EXCEPT !.pc = "done", !.ok = FALSE]]
    /\ UNCHANGED <<clock, snooze, sched, triggered>>
    /\ UNCHANGED exceptSched

\* GmailService.restoreSnoozedEmails: the batch update of the found items to
\* status inbox with snoozeUntil cleared, and the restored count
RestoreSave(r, dbOk) ==
    /\ restore[r].pc = "save"
    /\ IF dbOk
       THEN /\ snooze' = [id \in SnoozeItems |->
                            IF id \in restore[r].found THEN Active ELSE snooze[id]]
            /\ restore' = [restore EXCEPT ![r] =
                  [IdleRestore EXCEPT !.pc = "done",
                                      !.restored = Cardinality(restore[r].found)]]
       ELSE /\ restore' = [restore EXCEPT ![r] = [IdleRestore EXCEPT !.pc = "done", !.ok = FALSE]]
            /\ UNCHANGED snooze
    /\ UNCHANGED <<clock, sched, triggered>>
    /\ UNCHANGED exceptSched

NextSched ==
    \/ ClockTick
    \/ SchedStart
    \/ SchedInterval
    \/ SchedStop
    \/ \E r \in RunSlots, dbOk \in BOOLEAN : RestoreFind(r, dbOk)
    \/ \E r \in RunSlots, dbOk \in BOOLEAN : RestoreSave(r, dbOk)

InitSpecSched ==
    /\ QuietFn
    /\ QuietCred /\ QuietFetch /\ QuietEnrich /\ QuietSearch /\ QuietListen /\ QuietUtil
    /\ InitSched

SpecSched == InitSpecSched /\ [][NextSched]_vars

(***************************************************************************)
(* QdrantService.storeEmailEmbedding, in its two builds: over the REST     *)
(* client (ensureCollection, the id check, the upsert) and over the gRPC   *)
(* client (the upsert alone).  Ids are in halves, so that an id that is    *)
(* not an integer can be passed.                                           *)
(***************************************************************************)
EmailIdInputs == {-2, 0, 1, 2, 3, 4}

\* Number.isInteger(emailId), the id being given in halves
IsInteger(id2) == id2 % 2 = 0

\* storeEmailEmbedding (REST) line 92: Number.isInteger(emailId) and emailId > 0
ValidEmailId(id2) == IsInteger(id2) /\ id2 > 0

InitStore ==
    /\ store = IdleStore
    /\ dto = IdleDto
    /\ pipe = IdlePipe

\* the call, up to the first await: the REST build awaits ensureCollection;
\* the gRPC build converts the id with BigInt, which throws for a number
\* that is not an integer, and awaits the upsert
StoreCall(grpc, id2, o) ==
    /\ store.pc \in {"idle", "done"}
    /\ store' =
          IF ~grpc
          THEN [IdleStore EXCEPT !.pc = "ensure", !.emailId = id2, !.userId = o]
          ELSE IF IsInteger(id2)
               THEN [IdleStore EXCEPT !.pc = "upsert", !.grpc = TRUE, !.emailId = id2,
                                      !.userId = o]
               ELSE [IdleStore EXCEPT !.pc = "done", !.grpc = TRUE, !.emailId = id2,
                                      !.userId = o, !.outcome = "failed"]
    /\ UNCHANGED points
    /\ UNCHANGED exceptStore

\* storeEmailEmbedding (REST) lines 88-94: ensureCollection has asked the
\* index for its collections; then the id is checked
StoreEnsure(ok) ==
    /\ store.pc = "ensure"
    /\ store' =
          IF ok /\ ValidEmailId(store.emailId)
          THEN [store EXCEPT !.pc = "upsert", !.netCalls = store.netCalls + 1]
          ELSE [store EXCEPT !.pc = "done", !.netCalls = store.netCalls + 1,
                             !.outcome = "failed"]
    /\ UNCHANGED points
    /\ UNCHANGED exceptStore

\* the upsert request is answered: the point is stored, or the call fails
StoreUpsert(ok) ==
    /\ store.pc = "upsert"
    /\ store' = [store EXCEPT !.pc = "done", !.netCalls = store.netCalls + 1,
                              !.outcome = IF ok THEN "stored" ELSE "failed"]
    /\ points' = IF ok THEN Upsert(points, store.emailId \div 2, store.userId) ELSE points
    /\ UNCHANGED exceptStore

NextStore ==
    \/ \E grpc \in BOOLEAN, id2 \in EmailIdInputs, o \in Owners : StoreCall(grpc, id2, o)
    \/ \E ok \in BOOLEAN : StoreEnsure(ok)
    \/ \E ok \in BOOLEAN : StoreUpsert(ok)

InitSpecStore ==
    /\ QuietFn
    /\ QuietCred /\ QuietFetch /\ QuietEnrich /\ QuietSearch /\ QuietListen /\ QuietSched
    /\ InitStore

SpecStore == InitSpecStore /\ [][NextStore]_vars

(***************************************************************************)
(* The whole path of a new item when nothing fails: one fetcher stores the *)
(* listed messages and publishes the event, the broker appends it to the   *)
(* topic, the listener hands its id list to processEmails.  Every call to  *)
(* the source, the database, the broker, the model and the index answers.  *)
(***************************************************************************)
PipelineFetcher == "f1"

\* KafkaService.publishEmailFetchedEvent, producer.send: the published event
\* becomes the next message of the topic
TopicAppend ==
    /\ \E e \in events :
          /\ \A n \in DOMAIN topic : topic[n].emailIds # e.emailIds
          /\ topic' = Append(topic, [kind |-> "event", emailIds |-> e.emailIds])
    /\ UNCHANGED <<offset, lsn, deliveries, rejected>>
    /\ UNCHANGED <<credVars, fetchVars, enrichVars, searchVars, schedVars, utilVars, fnVars>>

NextPipeline ==
    \/ \E o \in Owners : FetchCall(PipelineFetcher, o)
    \/ FetchUser(PipelineFetcher)
    \/ FetchCred(PipelineFetcher, NoResult)
    \/ \E listing \in Listings : FetchList(PipelineFetcher, "ok", listing)
    \/ FetchExisting(PipelineFetcher, TRUE)
    \/ FetchGet(PipelineFetcher, TRUE)
    \/ FetchSave(PipelineFetcher, TRUE)
    \/ FetchLoopEnd(PipelineFetcher)
    \/ FetchPublish(PipelineFetcher, TRUE)
    \/ TopicAppend
    \/ ListenDeliver
    \/ ListenResume
    \/ ListenCommit
    \/ ProcReturn(ListenerWorker)
    \/ ProcFindEmail(ListenerWorker)
    \/ ProcFindSummary(ListenerWorker)
    \/ ProcSummarize(ListenerWorker, TRUE)
    \/ ProcExtractMetadata(ListenerWorker)
    \/ ProcSaveSummary(ListenerWorker, TRUE)
    \/ ProcSaveMetadata(ListenerWorker, TRUE)
    \/ ProcEmbed(ListenerWorker, TRUE)
    \/ ProcStore(ListenerWorker, TRUE)
    \/ ProcSaveQdrantId(ListenerWorker, TRUE)

InitSpecPipeline ==
    /\ QuietFn
    /\ QuietCred /\ InitFetch /\ QuietEnrich /\ QuietSearch /\ QuietListen /\ QuietSched
    /\ QuietUtil

SpecPipeline == InitSpecPipeline /\ [][NextPipeline]_vars

(***************************************************************************)
(* TBaseDTO: the response wrapper and its constructor.                     *)
(***************************************************************************)
Obj(x) == [kind |-> "object", val |-> x]

\* the arguments tried: data is absent, a string or an object; message and
\* error are absent or a string, the empty string included
DtoData == {Undefined, Str(""), Str("text"), Obj("{}"), Obj("{a:1}"), Obj("{results:[]}"),
            Obj("[]"), Obj("{count:0}")}
DtoMessages == {Undefined, Str(""), Str("ok"), Str("Emails fetched")}
DtoErrors == {Undefined, Str(""), Str("fail"), Str("Search failed")}

\* JavaScript's !x for an absent value or a string
Not(x) == x.kind = "undefined" \/ (x.kind = "string" /\ x.val = "")

\* constructor(data?, message?, error?)
TBaseDTO(data, message, error) ==
    [built |-> TRUE, args |-> [data |-> data, message |-> message, error |-> error],
     success |-> Not(error), data |-> data, message |-> message, error |-> error]

\* new TBaseDTO(data, message, error)
DtoConstruct(data, message, error) ==
    /\ dto' = TBaseDTO(data, message, error)
    /\ UNCHANGED exceptDto

NextDto ==
    \E data \in DtoData, message \in DtoMessages, error \in DtoErrors :
        DtoConstruct(data, message, error)

InitSpecDto ==
    /\ QuietFn
    /\ QuietCred /\ QuietFetch /\ QuietEnrich /\ QuietSearch /\ QuietListen /\ QuietSched
    /\ QuietUtil

SpecDto == InitSpecDto /\ [][NextDto]_vars

(***************************************************************************)
(* GGJParseIntPipe.transform: parseInt(value, 10), and BadRequestException *)
(* when the result is NaN.  A string is a sequence of characters.          *)
(***************************************************************************)
Digits == {"0", "1", "2"}
Chars == Digits \cup {"-", " ", "a", "."}
Strings == UNION {[1..n -> Chars] : n \in 0..MaxLen}

DigitValue(c) == CASE c = "0" -> 0 [] c = "1" -> 1 [] c = "2" -> 2

NaN == [nan |-> TRUE, n |-> 0]
Num(n) == [nan |-> FALSE, n |-> n]

RECURSIVE TrimStart(_)
\* parseInt step 1: leading white space is dropped
TrimStart(v) == IF v # <<>> /\ Head(v) = " " THEN TrimStart(Tail(v)) ELSE v

RECURSIVE DigitPrefix(_)
\* parseInt: the longest prefix made of digits of the radix
DigitPrefix(v) ==
    IF v # <<>> /\ Head(v) \in Digits THEN <<Head(v)>> \o DigitPrefix(Tail(v)) ELSE <<>>

RECURSIVE DecimalValue(_)
\* the number a sequence of decimal digits denotes
DecimalValue(ds) ==
    IF ds = <<>> THEN 0
    ELSE 10 * DecimalValue(SubSeq(ds, 1, Len(ds) - 1)) + DigitValue(ds[Len(ds)])

\* parseInt(value, 10): white space, an optional sign, then the digits up to
\* the first character that is no digit; NaN when there is no digit
ParseInt(value) ==
    LET t == TrimStart(value)
        negative == t # <<>> /\ Head(t) = "-"
        ds == DigitPrefix(IF negative THEN Tail(t) ELSE t)
    IN IF ds = <<>> THEN NaN
       ELSE Num(IF negative THEN 0 - DecimalValue(ds) ELSE DecimalValue(ds))

\* transform(value, metadata)
Transform(value) ==
    LET val == ParseInt(value)
    IN IF val.nan
       THEN [value |-> value, outcome |-> "BadRequestException", val |-> 0]
       ELSE [value |-> value, outcome |-> "returned", val |-> val.n]

\* a route parameter arrives
InitPipe ==
    /\ store = IdleStore
    /\ dto = IdleDto
    /\ pipe \in {[IdlePipe EXCEPT !.value = v] : v \in Strings}

\* the pipe is applied to the route parameter
PipeTransform ==
    /\ pipe.outcome = "none"
    /\ pipe' = Transform(pipe.value)
    /\ UNCHANGED exceptPipe

NextPipe == PipeTransform

InitSpecPipe ==
    /\ QuietFn
    /\ QuietCred /\ QuietFetch /\ QuietEnrich /\ QuietSearch /\ QuietListen /\ QuietSched
    /\ InitPipe

SpecPipe == InitSpecPipe /\ [][NextPipe]_vars

(***************************************************************************)
(* GeminiService.summarizeEmail and extractMetadata: the model's output is *)
(* a text; the first "{" up to the last "}" of it is given to JSON.parse.  *)
(* A text is a sequence of tokens: a brace, other text, or a member        *)
(* "key": value of a JSON object.                                          *)
(***************************************************************************)
Arr(x) == [kind |-> "array", val |-> x]
Tok(tok, key, v) == [tok |-> tok, key |-> key, v |-> v]
OpenBrace == Tok("{", "", Undefined)
CloseBrace == Tok("}", "", Undefined)
OtherText == Tok("text", "", Undefined)
Member(key, v) == Tok("member", key, v)

\* the tokens tried
OutputTokens ==
    {OpenBrace, CloseBrace, OtherText,
     Member("sentiment", Str("positive")), Member("sentiment", Str("")),
     Member("keyPoints", Arr("[p]")), Member("keyPoints", Str("p")),
     Member("language", Str("vi")), Member("topics", Arr("[t]"))}
OutputTexts == UNION {[1..n -> OutputTokens] : n \in 0..MaxTokens}

\* text.match(/\{[\s\S]*\}/): from the first "{" to the last "}", or no match
JsonMatch(text) ==
    LET opens == {i \in 1..Len(text) : text[i] = OpenBrace}
        closes == {i \in 1..Len(text) : text[i] = CloseBrace}
    IN IF opens = {} \/ closes = {} THEN [found |-> FALSE, m |-> <<>>]
       ELSE LET a == CHOOSE i \in opens : \A j \in opens : i <= j
                b == CHOOSE i \in closes : \A j \in closes : j <= i
            IN IF a < b THEN [found |-> TRUE, m |-> SubSeq(text, a, b)]
               ELSE [found |-> FALSE, m |-> <<>>]

\* JSON.parse accepts the match when only members stand between its braces;
\* anything else is a SyntaxError
IsJson(m) == \A i \in 2..(Len(m) - 1) : m[i].tok = "member"

\* parsed.key: the last member of that key, undefined when there is none
Get(m, key) ==
    LET at == {i \in 2..(Len(m) - 1) : m[i].key = key}
    IN IF at = {} THEN Undefined
       ELSE m[CHOOSE i \in at : \A j \in at : j <= i].v

\* JavaScript's x || d
Or(x, d) == IF Not(x) THEN d ELSE x

\* Array.isArray(x) ? x : []
ArrayOr(x) == IF x.kind = "array" THEN x ELSE Arr("[]")

SummaryDefaults ==
    [keyPoints |-> Arr("[]"), sentiment |-> Str("neutral"), category |-> Str("other"),
     priority |-> Str("medium")]
MetadataDefaults ==
    [entities |-> Arr("[]"), topics |-> Arr("[]"), language |-> Str("en"),
     actionItems |-> Arr("[]"), tags |-> Arr("[]")]

Returned(v) == [outcome |-> "returned", val |-> v]
Threw(message) == [outcome |-> "threw", message |-> message]

\* summarizeEmail lines 64-103: the API call, the parse, the fallback, and
\* the catch that rethrows
SummarizeEmail(text, apiOk) ==
    LET jsonMatch == JsonMatch(text)
    IN IF ~apiOk THEN Threw("Failed to summarize email")
       ELSE IF jsonMatch.found
       THEN IF IsJson(jsonMatch.m)
            THEN Returned([keyPoints |-> ArrayOr(Get(jsonMatch.m, "keyPoints")),
                           sentiment |-> Or(Get(jsonMatch.m, "sentiment"), Str("neutral")),
                           category |-> Or(Get(jsonMatch.m, "category"), Str("other")),
                           priority |-> Or(Get(jsonMatch.m, "priority"), Str("medium"))])
            ELSE Threw("Failed to summarize email")
       ELSE Returned(SummaryDefaults)

\* extractMetadata lines 142-186: the API call, the parse, the fallback, and
\* the catch that returns the defaults
ExtractMetadata(text, apiOk) ==
    LET jsonMatch == JsonMatch(text)
    IN IF apiOk /\ jsonMatch.found /\ IsJson(jsonMatch.m)
       THEN Returned([entities |-> ArrayOr(Get(jsonMatch.m, "entities")),
                      topics |-> ArrayOr(Get(jsonMatch.m, "topics")),
                      language |-> Or(Get(jsonMatch.m, "language"), Str("en")),
                      actionItems |-> ArrayOr(Get(jsonMatch.m, "actionItems")),
                      tags |-> ArrayOr(Get(jsonMatch.m, "tags"))])
       ELSE Returned(MetadataDefaults)

\* the model answers an item with some text
InitGem ==
    /\ gem \in {[IdleGem EXCEPT !.text = t] : t \in OutputTexts}
    /\ payload = IdlePayload
    /\ stats = IdleStats

\* summarizeEmail(subject, body, from) with this output of the model
GemSummarize(apiOk) ==
    /\ gem.summary.outcome = "none"
    /\ gem' = [gem EXCEPT !.summaryApi = apiOk, !.summary = SummarizeEmail(gem.text, apiOk)]
    /\ UNCHANGED exceptGem

\* extractMetadata(subject, body) with this output of the model
GemExtract(apiOk) ==
    /\ gem.metadata.outcome = "none"
    /\ gem' = [gem EXCEPT !.metadataApi = apiOk, !.metadata = ExtractMetadata(gem.text, apiOk)]
    /\ UNCHANGED exceptGem

NextGem ==
    \/ \E apiOk \in BOOLEAN : GemSummarize(apiOk)
    \/ \E apiOk \in BOOLEAN : GemExtract(apiOk)

InitSpecGem ==
    /\ QuietCred /\ QuietFetch /\ QuietEnrich /\ QuietSearch /\ QuietListen /\ QuietSched
    /\ QuietUtil
    /\ InitGem

SpecGem == InitSpecGem /\ [][NextGem]_vars

(***************************************************************************)
(* fetchAndStoreEmails lines 342-370: extractBody walks the payload tree   *)
(* of a message.  A part has a MIME type, base64 body data ("" when it has *)
(* none), a filename ("" when it has none) and a list of parts.            *)
(***************************************************************************)
Part(mimeType, data, filename, parts) ==
    [mimeType |-> mimeType, data |-> data, filename |-> filename, parts |-> parts]

\* Buffer.from(data, 'base64').toString('utf-8')
Decode(data) ==
    CASE data = "QQ==" -> "A"
      [] data = "Qg==" -> "B"
      [] data = "PGI+" -> "<b>"
      [] OTHER -> ""

\* the parts tried: leaves, lists of one or two leaves under a multipart
\* node, and payloads of one or two of either
Leaves ==
    {Part("text/plain", "QQ==", "", <<>>), Part("text/plain", "Qg==", "", <<>>),
     Part("text/plain", "", "", <<>>), Part("text/html", "PGI+", "", <<>>),
     Part("text/html", "Qg==", "", <<>>), Part("image/png", "QQ==", "a.png", <<>>)}
Lists(S) == UNION {[1..n -> S] : n \in 1..2}
Inner == {Part("multipart/alternative", "", "", ps) : ps \in Lists(Leaves)}
Payloads ==
    Leaves \cup {Part("multipart/mixed", "", "", ps) : ps \in Lists(Leaves \cup Inner)}

RECURSIVE ExtractBody(_, _)
\* extractBody(part): a part with body data sets bodyText or bodyHtml by its
\* MIME type, then its parts are walked in order
ExtractBody(part, found) ==
    LET RECURSIVE Each(_, _)
        Each(ps, acc) ==
            IF ps = <<>> THEN acc ELSE Each(Tail(ps), ExtractBody(Head(ps), acc))
        here ==
            IF part.data = "" THEN found
            ELSE IF part.mimeType = "text/plain"
            THEN [found EXCEPT !.bodyText = Decode(part.data)]
            ELSE IF part.mimeType = "text/html"
            THEN [found EXCEPT !.bodyHtml = Decode(part.data)]
            ELSE found
    IN Each(part.parts, here)

\* lines 343-370: the walk from the payload, and once more from its parts
\* when nothing was found
BodyOf(tree) ==
    LET RECURSIVE Each(_, _)
        Each(ps, acc) ==
            IF ps = <<>> THEN acc ELSE Each(Tail(ps), ExtractBody(Head(ps), acc))
        first == ExtractBody(tree, [bodyText |-> "", bodyHtml |-> ""])
    IN IF first.bodyText = "" /\ first.bodyHtml = "" /\ tree.parts # <<>>
       THEN Each(tree.parts, first)
       ELSE first

\* a message arrives from the source
InitPayload ==
    /\ gem = IdleGem
    /\ payload \in {[IdlePayload EXCEPT !.tree = t] : t \in Payloads}
    /\ stats = IdleStats

\* lines 342-370 and 420-421: the bodies stored with the item
PayloadExtract ==
    /\ ~payload.done
    /\ LET b == BodyOf(payload.tree)
       IN payload' = [payload EXCEPT !.done = TRUE, !.bodyText = b.bodyText,
                                     !.bodyHtml = b.bodyHtml]
    /\ UNCHANGED exceptPayload

NextPayload == PayloadExtract

InitSpecPayload ==
    /\ QuietCred /\ QuietFetch /\ QuietEnrich /\ QuietSearch /\ QuietListen /\ QuietSched
    /\ QuietUtil
    /\ InitPayload

SpecPayload == InitSpecPayload /\ [][NextPayload]_vars

(***************************************************************************)
(* processEmail lines 68-103: the word count, the reading time and the     *)
(* attachment scan of an item.  A text is a sequence of characters; the    *)
(* character "B" stands for a block of 200 words joined by single spaces.  *)
(***************************************************************************)
WordsPerMinute == 200
TextChars == {"a", " ", "B"}
IsSpace(c) == c \in {" ", "\n"}
Subjects == UNION {[1..n -> {"a", " "}] : n \in 0..1}
Contents == UNION {[1..n -> TextChars] : n \in 0..MaxLen}

\* the payloads tried: a part without a filename, an image with one, a part
\* with a filename and no MIME type; lists of these under a multipart node;
\* payloads of one or two of either
FileLeaves ==
    {Part("text/plain", "QQ==", "", <<>>), Part("image/png", "", "a.png", <<>>),
     Part("", "", "b.bin", <<>>)}
FileInner == {Part("multipart/mixed", "", "", ps) : ps \in Lists(FileLeaves)}
FilePayloads ==
    FileLeaves \cup {Part("multipart/mixed", "", "", ps) : ps \in Lists(FileLeaves \cup FileInner)}

RECURSIVE SplitLength(_, _)
\* fullText.split(/\s+/).length: one more than the number of maximal runs of
\* white space; inSpace tells that the character before was white space
SplitLength(v, inSpace) ==
    IF v = <<>> THEN 1
    ELSE IF IsSpace(Head(v))
    THEN (IF inSpace THEN 0 ELSE 1) + SplitLength(Tail(v), TRUE)
    ELSE (IF Head(v) = "B" THEN WordsPerMinute - 1 ELSE 0) + SplitLength(Tail(v), FALSE)

\* Math.ceil(wordCount / 200)
ReadingTime(wordCount) == (wordCount + WordsPerMinute - 1) \div WordsPerMinute

\* lines 69-70: `${email.subject}\n\n${emailContent}`
FullText(subject, content) == subject \o <<"\n", "\n">> \o content

\* lines 94-101: the parts of the payload that carry a filename, and their
\* MIME types
AttachmentTypes(rawData) ==
    LET parts == rawData.parts
        RECURSIVE Types(_)
        Types(ps) ==
            IF ps = <<>> THEN <<>>
            ELSE IF Head(ps).filename # ""
            THEN <<IF Head(ps).mimeType = "" THEN "unknown" ELSE Head(ps).mimeType>>
                     \o Types(Tail(ps))
            ELSE Types(Tail(ps))
    IN Types(parts)

\* an item is stored
InitStats ==
    /\ gem = IdleGem
    /\ payload = IdlePayload
    /\ stats \in {[IdleStats EXCEPT !.subject = sb, !.content = ct, !.rawData = rd] :
                     sb \in Subjects, ct \in Contents, rd \in FilePayloads}

\* processEmail lines 85-103 and 118-128: the numbers saved with the
\* metadata row
StatsCompute ==
    /\ ~stats.done
    /\ LET wordCount == SplitLength(FullText(stats.subject, stats.content), FALSE)
           attachmentTypes == AttachmentTypes(stats.rawData)
       IN stats' = [stats EXCEPT !.done = TRUE, !.wordCount = wordCount,
                                 !.readingTime = ReadingTime(wordCount),
                                 !.hasAttachment = (Len(attachmentTypes) > 0),
                                 !.attachmentTypes = attachmentTypes]
    /\ UNCHANGED exceptStats

NextStats == StatsCompute

InitSpecStats ==
    /\ QuietCred /\ QuietFetch /\ QuietEnrich /\ QuietSearch /\ QuietListen /\ QuietSched
    /\ QuietUtil
    /\ InitStats

SpecStats == InitSpecStats /\ [][NextStats]_vars

(***************************************************************************)
(* One fetch and one enrichment run with the steps the service takes by    *)
(* itself scheduled fairly.  The calls to the mail source and to the       *)
(* language model are awaited without a timeout (gmail.service.ts 196,     *)
(* 248, 297; gemini.service.ts 65, 143; storeEmailEmbedding), so nothing   *)
(* obliges them to answer: their steps carry no fairness condition.        *)
(***************************************************************************)
AwaitFetcher == "f1"
AwaitWorker == "w1"
\* the owners whose fetch is followed
AwaitOwners == {1}

NextAwait ==
    \/ \E o \in AwaitOwners : FetchCall(AwaitFetcher, o)
    \/ FetchUser(AwaitFetcher)
    \/ \E err \in {NoResult, ErrReauth} : FetchCred(AwaitFetcher, err)
    \/ \E outcome \in {"ok", "network"}, listing \in Listings :
          FetchList(AwaitFetcher, outcome, listing)
    \/ \E dbOk \in BOOLEAN : FetchExisting(AwaitFetcher, dbOk)
    \/ \E ok \in BOOLEAN : FetchGet(AwaitFetcher, ok)
    \/ \E dbOk \in BOOLEAN : FetchSave(AwaitFetcher, dbOk)
    \/ FetchLoopEnd(AwaitFetcher)
    \/ \E ok \in BOOLEAN : FetchPublish(AwaitFetcher, ok)
    \/ ProcCall(AwaitWorker, BatchItems)
    \/ ProcReturn(AwaitWorker)
    \/ ProcFindEmail(AwaitWorker)
    \/ ProcFindSummary(AwaitWorker)
    \/ \E ok \in BOOLEAN : ProcSummarize(AwaitWorker, ok)
    \/ ProcExtractMetadata(AwaitWorker)
    \/ \E dbOk \in BOOLEAN : ProcSaveSummary(AwaitWorker, dbOk)
    \/ \E dbOk \in BOOLEAN : ProcSaveMetadata(AwaitWorker, dbOk)
    \/ \E ok \in BOOLEAN : ProcEmbed(AwaitWorker, ok)
    \/ \E ok \in BOOLEAN : ProcStore(AwaitWorker, ok)
    \/ \E dbOk \in BOOLEAN : ProcSaveQdrantId(AwaitWorker, dbOk)

\* the steps of a fetch that need no answer from the mail source: the
\* database, the loop, the publish and the return
FetchOwnSteps ==
    \/ FetchUser(AwaitFetcher)
    \/ \E dbOk \in BOOLEAN : FetchExisting(AwaitFetcher, dbOk)
    \/ \E dbOk \in BOOLEAN : FetchSave(AwaitFetcher, dbOk)
    \/ FetchLoopEnd(AwaitFetcher)
    \/ \E ok \in BOOLEAN : FetchPublish(AwaitFetcher, ok)

\* the steps of an enrichment run that need no answer from the language
\* model or the vector index: the database, the local embedding, the loop
ProcOwnSteps ==
    \/ ProcReturn(AwaitWorker)
    \/ ProcFindEmail(AwaitWorker)
    \/ ProcFindSummary(AwaitWorker)
    \/ \E dbOk \in BOOLEAN : ProcSaveSummary(AwaitWorker, dbOk)
    \/ \E dbOk \in BOOLEAN : ProcSaveMetadata(AwaitWorker, dbOk)
    \/ \E ok \in BOOLEAN : ProcEmbed(AwaitWorker, ok)
    \/ \E dbOk \in BOOLEAN : ProcSaveQdrantId(AwaitWorker, dbOk)

InitSpecAwait ==
    /\ QuietFn
    /\ QuietCred /\ InitFetch /\ QuietEnrich /\ QuietSearch /\ QuietListen /\ QuietSched
    /\ QuietUtil

SpecAwait ==
    InitSpecAwait /\ [][NextAwait]_vars /\ WF_vars(FetchOwnSteps) /\ WF_vars(ProcOwnSteps)

(***************************************************************************)
(* Disconnect while calls are in flight: deleteGmailTokens and             *)
(* getValidAccessToken with renewals that the OAuth server answers; the    *)
(* OAuth callback (saveGmailTokens) is not called.                         *)
(***************************************************************************)
NextDisconnect ==
    \/ Tick
    \/ \E o \in Owners : DeleteGmailTokens(o)
    \/ \E c \in Callers, o \in Owners : GvatCall(c, o)
    \/ \E c \in Callers : GvatFind(c)
    \/ \E c \in Callers : GvatCheck(c)
    \/ \E c \in Callers, t \in BOOLEAN, e \in BOOLEAN : RefreshOAuth(c, TRUE, t, e)
    \/ \E c \in Callers : RefreshSaveFind(c)
    \/ \E c \in Callers : RefreshSaveSave(c)

InitSpecDisconnect ==
    /\ QuietFn
    /\ InitCred /\ QuietFetch /\ QuietEnrich /\ QuietSearch /\ QuietListen /\ QuietSched
    /\ QuietUtil

SpecDisconnect == InitSpecDisconnect /\ [][NextDisconnect]_vars

InitSpecEnrich ==
    /\ QuietFn
    /\ QuietCred /\ (\E rows \in Seeds : StoredItems(rows)) /\ QuietEnrich /\ QuietSearch
    /\ QuietListen /\ QuietSched /\ QuietUtil

SpecEnrich == InitSpecEnrich /\ [][NextEnrich]_vars

InitSpecFetch ==
    /\ QuietFn
    /\ QuietCred /\ InitFetch /\ QuietEnrich /\ QuietSearch /\ QuietListen /\ QuietSched
    /\ QuietUtil

SpecFetch == InitSpecFetch /\ [][NextFetch]_vars

InitSpecCred ==
    /\ QuietFn
    /\ InitCred /\ QuietFetch /\ QuietEnrich /\ QuietSearch /\ QuietListen /\ QuietSched
    /\ QuietUtil

SpecCred == InitSpecCred /\ [][NextCred]_vars

(***************************************************************************)
(* Claims about the credential manager.                                    *)
(***************************************************************************)

\* C1: calls of getValidAccessToken for one owner that overlap in time and
\* found the stored token expired issue one renewal in total, so no two
\* calls that overlapped each other both issued a renewal.
C1_OneRenewalPerOverlap ==
    \A c \in Callers : \A d \in overlap[c] :
        ~(renewed[c] /\ renewed[d] /\ ~TokenValid(ctok[c], now) /\ ~TokenValid(ctok[d], now))

C10_ValidTokenReturned ==
    [][\A c \in Callers :
          (/\ cpc[c] = "check" /\ cpc'[c] # "check"
           /\ ctok[c].id # 0
           /\ ctok[c].accessTokenExpiry > now + RefreshBuffer) =>
             /\ cpc'[c] = "done"
             /\ cres'[c] = ctok[c].accessToken
             /\ cres'[c] # 0
             /\ ~renewed'[c]
             /\ refreshLocks' = refreshLocks
             /\ gmailTokens' = gmailTokens]_vars

\* C10 witness: a call returned the cached token while a renewal for the
\* same owner was pending, without renewing and without waiting.
C10_Witness ==
    \E c \in Callers :
        /\ cpc[c] = "done" /\ ~renewed[c] /\ cwait[c] = NoCaller
        /\ ctok[c].id # 0 /\ cres[c] = ctok[c].accessToken
        /\ refreshLocks[cowner[c]] # NoCaller

\* C26: no two renewals are in flight for one owner; the owner of a renewal in
\* flight has that renewal's handle in refreshLocks; and a renewal is started
\* for an owner only when refreshLocks holds no handle for that owner.
C26_OneRenewalInFlight ==
    /\ [](\A c, d \in Callers :
            (c # d /\ Renewing(c) /\ Renewing(d)) => cowner[c] # cowner[d])
    /\ [](\A c \in Callers : Renewing(c) => refreshLocks[cowner[c]] = c)
    /\ [][\A c \in Callers :
            (~Renewing(c) /\ Renewing(c)') => refreshLocks[cowner[c]] = NoCaller]_vars

\* a second call for the owner found the handle of the renewal in flight and
\* awaits it instead of renewing
C26_Witness ==
    \E c, d \in Callers :
        /\ c # d
        /\ cowner[c] = cowner[d]
        /\ Renewing(c)
        /\ cpc[d] = "wait" /\ cwait[d] = c /\ ~renewed[d]

\* C27: a call only ever awaits a handle of its own owner; a call that read an
\* expired token and finds no handle for its own owner starts its renewal,
\* whatever is pending for other owners; and the token a call returns is the
\* one it read from its own owner's row or the one a renewal for its own owner
\* obtained.
C27_OwnersIndependent ==
    /\ [](\A d \in Callers : cpc[d] = "wait" => cowner[cwait[d]] = cowner[d])
    /\ [][\A c \in Callers :
            (cpc[c] = "find" /\ cpc'[c] = "check") => ctok'[c] = gmailTokens[cowner[c]]]_vars
    /\ [][\A c \in Callers :
            (/\ cpc[c] = "check" /\ cpc'[c] # "check"
             /\ ctok[c].id # 0
             /\ ~TokenValid(ctok[c], now)
             /\ refreshLocks[cowner[c]] = NoCaller) =>
                (cpc'[c] = "oauth" /\ renewed'[c])]_vars
    /\ [][\A c \in Callers :
            (InFlight(c) /\ cpc'[c] = "done") =>
                cres'[c] \in {ctok[c].accessToken} \cup
                             {ccred[d].accessToken :
                                 d \in {e \in Callers : Renewing(e) /\ cowner[e] = cowner[c]}}]_vars

\* renewals for two different owners are in flight at the same time
C27_Witness ==
    \E c, d \in Callers :
        /\ cowner[c] # cowner[d]
        /\ Renewing(c) /\ Renewing(d)
        /\ refreshLocks[cowner[c]] = c
        /\ refreshLocks[cowner[d]] = d

(***************************************************************************)
(* Claims about the source fetcher.                                        *)
(***************************************************************************)

\* C2: the email_raw table never holds two rows with the same owner and the
\* same external id, whatever fetches ran and however they overlapped.
C2_NoDuplicateRawItem ==
    \A r1 \in emailRaw, r2 \in emailRaw :
        (r1.userId = r2.userId /\ r1.gmailId = r2.gmailId) => r1 = r2

\* C2 witness: a fetch that found the item absent is about to insert it after
\* an overlapping fetch for the same owner has stored it.
C2_Witness ==
    \E f \in Fetchers, g \in Fetchers :
        /\ f # g
        /\ fetch[f].pc = "save" /\ FetchInFlight(g)
        /\ fetch[f].userId = fetch[g].userId
        /\ \E r \in emailRaw :
              /\ r.userId = fetch[f].userId
              /\ r.gmailId = fetch[f].messages[fetch[f].i]
              /\ r.id \in Range(fetch[g].storedEmailIds)

\* a successful return of a call that no other call of the owner overlapped,
\* following a successful call of the owner that listed the same messages
SecondOfTwo(f) ==
    /\ FetchInFlight(f) /\ fetch'[f].pc = "done" /\ fetch'[f].result.success
    /\ fetch[f].solo
    /\ lastFetch[fetch[f].userId].valid
    /\ lastFetch[fetch[f].userId].messages = fetch[f].messages

\* C3 as stated: the second of two successive calls listing the same items
\* stores nothing and skips as many items as the first call stored.
C3_SecondSkipsFirstStored ==
    [][\A f \in Fetchers :
          SecondOfTwo(f) =>
             /\ fetch'[f].result.count = 0
             /\ fetch'[f].result.skipped = lastFetch[fetch[f].userId].storedCount]_vars

\* C3 amended: the second call skips every item the first call stored or
\* skipped, and stores at most the remaining listed items.
C3_SecondSkipsFirstSeen ==
    [][\A f \in Fetchers :
          SecondOfTwo(f) =>
             LET first == lastFetch[fetch[f].userId]
             IN /\ fetch'[f].result.skipped = first.storedCount + first.skippedCount
                /\ fetch'[f].result.count + fetch'[f].result.skipped
                      <= Len(fetch[f].messages)]_vars

\* C3 witness: the second call has gone through a listing of which the first
\* call stored one item and skipped the other.
C3_Witness ==
    \E f \in Fetchers :
        /\ fetch[f].pc = "loop" /\ fetch[f].i > Len(fetch[f].messages)
        /\ fetch[f].solo
        /\ lastFetch[fetch[f].userId].valid
        /\ lastFetch[fetch[f].userId].messages = fetch[f].messages
        /\ lastFetch[fetch[f].userId].storedCount = 1
        /\ lastFetch[fetch[f].userId].skippedCount = 1
        /\ fetch[f].skippedCount = 2

\* C4 (as stated): when processEmails runs with an item id that an earlier
\* call, one call after another, was given, exactly one EmailSummary row exists
\* for the item and the run makes no summarization, save, embedding or
\* vector-index call for it.
C4_RepeatAfterAnyCall ==
    ~everOverlap =>
        \A w \in Workers : \A id \in Range(work[w].emailIds) \cap attempted :
            Running(w) =>
                /\ Cardinality(SummaryRows(id)) = 1
                /\ Acting(w) => Current(w) # id

\* C4 (amended): when processEmails runs with an item id that had an
\* EmailSummary row when the run started, the run makes no summarization, save,
\* embedding or vector-index call for the item, and while calls come one after
\* another exactly one EmailSummary row exists for it.
C4_RepeatAfterSavedSummary ==
    /\ \A w \in Workers : \A id \in work[w].pre :
          Running(w) =>
              /\ Acting(w) => Current(w) # id
              /\ SummaryRows(id) # {}
              /\ ~everOverlap => Cardinality(SummaryRows(id)) = 1
    /\ ~everOverlap => \A id \in RawIds : Cardinality(SummaryRows(id)) <= 1

\* a later call, alone, has passed over an item that had its summary row
C4_Witness ==
    \E w \in Workers :
        /\ ~everOverlap
        /\ work[w].pc = "find"
        /\ work[w].k > 1
        /\ work[w].emailIds[work[w].k - 1] \in work[w].pre \cap attempted

\* C5: at most one EmailSummary row and at most one EmailMetadata row exist
\* for an item in every reachable state, runs overlapping or not.
C5_AtMostOneRowPerItem ==
    \A id \in RawIds :
        /\ Cardinality(SummaryRows(id)) <= 1
        /\ Cardinality(MetadataRows(id)) <= 1

\* C6: processEmails never ends by throwing, and every stored item of the
\* batch that the run is past and whose processing did not fail has an
\* EmailSummary row, whatever happened to the other items of the batch.
C6_FailureIsolated ==
    \A w \in Workers :
        /\ work[w].pc # "threw"
        /\ work[w].pc = "find" =>
              \A j \in 1..(work[w].k - 1) :
                  LET id == work[w].emailIds[j]
                  IN (id \in RawIds /\ id \notin work[w].failed) => SummaryRows(id) # {}

\* the loop is over: the first item failed, the second one, which had no
\* summary row, got it
C6_Witness ==
    \E w \in Workers :
        /\ ~everOverlap
        /\ work[w].pc = "find"
        /\ work[w].k = 3
        /\ work[w].emailIds[1] \in work[w].failed
        /\ SummaryRows(work[w].emailIds[1]) = {}
        /\ work[w].emailIds[2] \notin work[w].failed \cup work[w].pre
        /\ SummaryRows(work[w].emailIds[2]) # {}

\* C7: whenever no processEmails run is in progress, every stored item has
\* both an EmailSummary row and an EmailMetadata row or neither.
C7_SummaryAndMetadataTogether ==
    (\A w \in Workers : ~Running(w)) =>
        \A id \in RawIds : (SummaryRows(id) = {}) <=> (MetadataRows(id) = {})

\* C8: every hit Qdrant returned to a search, and every result of the
\* response, comes from a point whose payload userId is the searching user,
\* and the joined email is that user's.
C8_SearchStaysWithOwner ==
    /\ \A i \in DOMAIN srch.hits : srch.hits[i].payload.userId = srch.userId
    /\ \A i \in DOMAIN srch.results :
          /\ srch.results[i].payload.userId = srch.userId
          /\ \A e \in srch.results[i].email : e.userId = srch.userId

\* a search returned results while the index held another user's point with
\* a score above every returned one
C8_Witness ==
    /\ srch.pc = "done"
    /\ srch.results # <<>>
    /\ \E p \in points :
          /\ p.userId # srch.userId
          /\ \A i \in DOMAIN srch.results :
                srch.score[p.id] > srch.score[srch.results[i].payload.emailRawId]

C11_HandleRemovedOnCompletion ==
    /\ [](\A o \in Owners :
            refreshLocks[o] # NoCaller =>
                (Renewing(refreshLocks[o]) /\ cowner[refreshLocks[o]] = o))
    /\ [](\A d \in Callers :
            cpc[d] = "wait" => (Renewing(cwait[d]) /\ refreshLocks[cowner[d]] = cwait[d]))
    /\ [][\A c \in Callers :
            (Renewing(c) /\ cpc'[c] \in {"done", "failed"}) =>
                refreshLocks'[cowner[c]] = NoCaller]_vars

\* a call made after a renewal for the owner completed has started a new
\* renewal for the same owner
C11_Witness ==
    \E c, d \in Callers :
        /\ c # d
        /\ cowner[c] = cowner[d]
        /\ renewed[d] /\ cpc[d] \in {"done", "failed"}
        /\ d \notin overlap[c]
        /\ cpc[c] = "oauth"
        /\ refreshLocks[cowner[c]] = c

\* the fetcher's call returns at this step
FetchReturns(f) == FetchInFlight(f) /\ fetch'[f].pc = "done"

\* the failure messages that tell the caller to authenticate again
ReauthMessages ==
    {OuterCatchMessage(ErrNotFound), OuterCatchMessage(ErrReauth), FetchListMessage("401")}

\* C12: a listed message whose retrieval or insert failed is counted neither
\* as stored nor as skipped, every other message the loop is past is in the
\* store, a failing retrieval or insert never ends the call, and the call
\* that reaches the end of the loop returns success with its stored count.
C12_ItemFailureIsolated ==
    /\ [](\A f \in Fetchers :
            fetch[f].pc = "loop" =>
                /\ fetch[f].storedCount + fetch[f].skippedCount + Cardinality(fetch[f].failed)
                      = fetch[f].i - 1
                /\ \A j \in 1..(fetch[f].i - 1) :
                      \/ fetch[f].messages[j] \in fetch[f].failed
                      \/ \E r \in emailRaw :
                            r.gmailId = fetch[f].messages[j] /\ r.userId = fetch[f].userId)
    /\ [][\A f \in Fetchers :
            /\ fetch[f].pc \in {"get", "save"} => fetch'[f].pc \in {"get", "save", "loop"}
            /\ (FetchReturns(f) /\ (fetch[f].pc = "publish" \/
                                    (fetch[f].pc = "loop" /\
                                     fetch[f].i > Len(fetch[f].messages)))) =>
                  (fetch'[f].result.success /\ fetch'[f].result.count = fetch[f].storedCount)]_vars

\* the loop is over: the first listed message failed, the second was stored
C12_Witness ==
    \E f \in Fetchers :
        /\ fetch[f].pc = "loop"
        /\ Len(fetch[f].messages) = 2
        /\ fetch[f].i = 3
        /\ fetch[f].messages[1] \in fetch[f].failed
        /\ fetch[f].storedCount = 1
        /\ \E r \in emailRaw : r.id = fetch[f].storedEmailIds[1] /\ r.gmailId = fetch[f].messages[2]

\* C13: a failed listing returns a failure with count 0 and the message of
\* its cause, stores nothing and publishes nothing; a call that is inside the
\* item loop never returns a failure.
C13_OnlyListingFails ==
    [][\A f \in Fetchers :
          /\ (FetchReturns(f) /\ fetch[f].pc = "list") =>
                /\ ~fetch'[f].result.success
                /\ fetch'[f].result.count = 0
                /\ fetch'[f].result.message \in
                      {FetchListMessage(x) : x \in {"401", "403", "network", "other"}}
                /\ emailRaw' = emailRaw
                /\ events' = events
          /\ (FetchReturns(f) /\ fetch[f].pc \in {"loop", "get", "save", "publish"}) =>
                fetch'[f].result.success]_vars

PublishedRight(f) ==
    (fetch[f].pc = "publish" /\ fetch'[f].pc = "done" /\ events' # events) =>
        /\ events' = events \cup {[userId |-> fetch[f].userId,
                                   emailIds |-> fetch[f].storedEmailIds]}
        /\ Len(fetch[f].storedEmailIds) = fetch[f].storedCount
        /\ \A id \in Range(fetch[f].storedEmailIds) :
              \E r \in emailRaw : r.id = id /\ r.userId = fetch[f].userId

\* C15: every call that stored at least one item returns through
\* the one call of the notifier, which is given the user and the ids of the
\* rows this call stored; a call that stored nothing does not call it.
C15_NotifiedWheneverStored ==
    [][\A f \in Fetchers :
          /\ FetchReturns(f) =>
                IF fetch[f].storedCount > 0
                THEN fetch[f].pc = "publish"
                ELSE fetch[f].pc # "publish" /\ events' = events
          /\ PublishedRight(f)]_vars

\* C16: when the publish fails the call returns success with the number of
\* rows it stored, and those rows are in the store.
C16_PublishFailureSwallowed ==
    [][\A f \in Fetchers :
          (fetch[f].pc = "publish" /\ fetch'[f].pc # "publish" /\ events' = events) =>
              /\ fetch'[f].pc = "done"
              /\ fetch'[f].result.success
              /\ fetch'[f].result.count = fetch[f].storedCount
              /\ fetch[f].storedCount = Len(fetch[f].storedEmailIds)
              /\ \A id \in Range(fetch[f].storedEmailIds) :
                    \E r \in emailRaw' : r.id = id /\ r.userId = fetch[f].userId]_vars

\* the only call made so far stored rows and returned success, and no event
\* was published
C16_Witness ==
    \E f \in Fetchers :
        /\ fetches = 1
        /\ fetch[f].pc = "done"
        /\ fetch[f].result.success
        /\ fetch[f].result.count >= 1
        /\ Cardinality(emailRaw) >= fetch[f].result.count
        /\ events = {}

\* processEmail lines 133-167: the run is inside the try block of the
\* embedding steps
Embedding(w) == work[w].pc \in {"embed", "store", "saveQdrantId"}

\* C17: while a run is at the embedding steps of an item the summary row it
\* saved and a metadata row of the item exist; a step of these that fails
\* changes neither table, does not mark the item as failed for processEmails,
\* and the run goes on with the next item of the batch.
C17_EmbeddingFailureSwallowed ==
    /\ [](\A w \in Workers :
            Embedding(w) =>
                /\ \E r \in SummaryRows(Current(w)) : r.id = work[w].savedSummary
                /\ MetadataRows(Current(w)) # {})
    /\ [][\A w \in Workers :
            (Embedding(w) /\ ~Embedding(w)') =>
                /\ work'[w].pc = "find"
                /\ work'[w].k = work[w].k + 1
                /\ work'[w].failed = work[w].failed
                /\ emailMetadata' = emailMetadata
                /\ \E r \in emailSummary' :
                      r.id = work[w].savedSummary /\ r.emailRawId = Current(w)]_vars

\* the run is over: the first item has its rows but no point in the index,
\* and the second item was processed after it
C17_Witness ==
    \E w \in Workers :
        /\ ~everOverlap
        /\ work[w].pc = "find"
        /\ work[w].k = 3
        /\ work[w].failed = {}
        /\ work[w].pre = {}
        /\ SummaryRows(work[w].emailIds[1]) # {}
        /\ MetadataRows(work[w].emailIds[1]) # {}
        /\ \A q \in points : q.id # work[w].emailIds[1]
        /\ SummaryRows(work[w].emailIds[2]) # {}

\* processEmail lines 68-104: the run is between the call of summarizeEmail
\* and the save of the summary row
BeforeSummarySaved(w) == work[w].pc \in {"summarize", "metadata", "saveSummary"}

\* C29: when the enrichment of an item stops before its summary row is saved,
\* the stopping step changes neither table, the item is recorded as failed and
\* the run has saved no summary row for it;
\* while calls come one after another the item then has no EmailSummary and no
\* EmailMetadata row; and a run that finds no summary row for an item calls
\* the summarization for it instead of passing it over.
C29_StoppedBeforeSummaryIsRetried ==
    /\ [][\A w \in Workers :
            (BeforeSummarySaved(w) /\ work'[w].pc = "find") =>
                /\ emailSummary' = emailSummary
                /\ emailMetadata' = emailMetadata
                /\ Current(w) \in work'[w].failed
                /\ \A r \in SummaryRows(Current(w)) : r.id # work[w].savedSummary
                /\ ~everOverlap =>
                      /\ SummaryRows(Current(w)) = {}
                      /\ MetadataRows(Current(w)) = {}]_vars
    /\ [][\A w \in Workers :
            (work[w].pc = "exists" /\ work'[w] # work[w] /\ SummaryRows(Current(w)) = {}) =>
                /\ work'[w].pc = "summarize"
                /\ work'[w].k = work[w].k]_vars
    /\ [](~everOverlap =>
            \A id \in RawIds : SummaryRows(id) = {} => MetadataRows(id) = {})

\* a later call, alone, has summarized again and saved the summary row of an
\* item that an earlier call was given and left without a summary row
C29_Witness ==
    \E w \in Workers :
        /\ ~everOverlap
        /\ work[w].pc = "saveMetadata"
        /\ Current(w) \in attempted
        /\ Current(w) \notin work[w].pre
        /\ \E r \in SummaryRows(Current(w)) : r.id = work[w].savedSummary

\* C30: a metadata row of an item exists only with a summary row of it, and a
\* point of an item only with both; a step that writes a qdrantId is the step
\* of a run after its upsert for the item, writes the item's id, and the point
\* is in the index; every summary row with a qdrantId carries its item's id
\* and a point with that id is in the index.
C30_QdrantIdAfterUpsert ==
    /\ [](\A id \in RawIds :
            /\ MetadataRows(id) # {} => SummaryRows(id) # {}
            /\ (\E q \in points : q.id = id) =>
                  (SummaryRows(id) # {} /\ MetadataRows(id) # {}))
    /\ [](\A r \in emailSummary :
            r.qdrantId # 0 =>
                /\ r.qdrantId = r.emailRawId
                /\ \E q \in points : q.id = r.qdrantId)
    /\ [][\A r \in emailSummary : \A r2 \in emailSummary' :
            (r2.id = r.id /\ r2.qdrantId # r.qdrantId) =>
                \E w \in Workers :
                    /\ work[w].pc = "saveQdrantId"
                    /\ work'[w] # work[w]
                    /\ work[w].savedSummary = r.id
                    /\ r2.qdrantId = Current(w)
                    /\ \E q \in points : q.id = Current(w)]_vars
    /\ [][\A w \in Workers :
            /\ (work[w].pc = "saveMetadata" /\ work'[w] # work[w]) =>
                  \E r \in SummaryRows(Current(w)) : r.id = work[w].savedSummary
            /\ (work[w].pc = "store" /\ work'[w] # work[w]) =>
                  /\ SummaryRows(Current(w)) # {}
                  /\ MetadataRows(Current(w)) # {}
                  /\ \A r \in SummaryRows(Current(w)) :
                        r.id = work[w].savedSummary => r.qdrantId = 0]_vars

\* a summary row carries the id of its item's point
C30_Witness ==
    \E r \in emailSummary :
        /\ r.qdrantId # 0
        /\ \E q \in points : q.id = r.qdrantId
        /\ MetadataRows(r.emailRawId) # {}

C19_DueItemsRestored ==
    [][/\ \A r \in RunSlots :
            (restore[r].pc = "find" /\ restore'[r].pc = "save") =>
                restore'[r].found =
                    {id \in SnoozeItems : /\ snooze[id].status = "snoozed"
                                          /\ snooze[id].snoozeUntil # NoTime
                                          /\ snooze[id].snoozeUntil <= clock}
       /\ \A r \in RunSlots :
            (restore[r].pc = "save" /\ restore'[r].pc = "done" /\ restore'[r].ok) =>
                /\ restore'[r].restored = Cardinality(restore[r].found)
                /\ \A id \in SnoozeItems :
                      snooze'[id] = IF id \in restore[r].found
                                    THEN [status |-> "inbox", snoozeUntil |-> NoTime]
                                    ELSE snooze[id]
       /\ (\A r \in RunSlots : ~(restore[r].pc = "save" /\ restore'[r].pc = "done"))
              => snooze' = snooze]_vars

\* a run has restored item 1 and left item 2, snoozed until a later time, alone
C19_Witness ==
    \E r \in RunSlots :
        /\ restore[r].pc = "done" /\ restore[r].ok /\ restore[r].restored = 1
        /\ snooze[1] = Active
        /\ snooze[2].status = "snoozed" /\ snooze[2].snoozeUntil > clock

\* C20: while the scheduler is running, one restore run has been triggered at
\* the start and one more for every full 5-minute period elapsed since; the
\* run of a period is triggered at the instant the period ends; before the
\* start no run is triggered.
C20_ImmediateThenPeriodic ==
    /\ (~sched.running /\ ~sched.stopped) => triggered = 0
    /\ sched.running =>
          LET elapsed == clock - sched.startedAt
          IN /\ triggered = 1 + sched.fired
             /\ \/ sched.fired = elapsed \div RestoreInterval
                \/ /\ sched.fired + 1 = elapsed \div RestoreInterval
                   /\ elapsed % RestoreInterval = 0
                   /\ elapsed > 0

\* two periods have elapsed: the run at the start and two periodic runs
C20_Witness ==
    /\ sched.running
    /\ sched.fired = 2
    /\ triggered = 3
    /\ clock - sched.startedAt >= 2 * RestoreInterval

(***************************************************************************)
(* Claims about the path from the source to the index.                     *)
(***************************************************************************)
\* C23: with no failures, a fetch that returns after listing k messages, none
\* of which the owner had, returns success with count k and skipped 0 and has
\* published exactly one event, with the owner's id and the k ids of the rows
\* it stored for those messages; and for every message of the topic the
\* listener is past, each id of its list has exactly one EmailSummary row,
\* exactly one EmailMetadata row and a point of that id in the index.
C23_EndToEnd ==
    /\ [][\A f \in Fetchers :
            LET loc == fetch[f]
                k == Len(loc.messages)
            IN (FetchReturns(f) /\ loc.pc \in {"loop", "publish"} /\ k > 0
                    /\ loc.skippedCount = 0) =>
                  /\ fetch'[f].result.success
                  /\ fetch'[f].result.count = k
                  /\ fetch'[f].result.skipped = 0
                  /\ Len(loc.storedEmailIds) = k
                  /\ \A i \in 1..k :
                        [id |-> loc.storedEmailIds[i], userId |-> loc.userId,
                         gmailId |-> loc.messages[i]] \in emailRaw
                  /\ events' \ events =
                        {[userId |-> loc.userId, emailIds |-> loc.storedEmailIds]}]_vars
    /\ [](\A n \in 1..offset : \A id \in Range(topic[n].emailIds) :
            /\ Cardinality(SummaryRows(id)) = 1
            /\ Cardinality(MetadataRows(id)) = 1
            /\ \E q \in points : q.id = id)

\* C28: when a fetch for owner B comes to save a listed message whose external
\* id a row of another owner A already has, the step stores a row for (B, x)
\* and counts it as stored.
C28_UniquePerOwner ==
    [][\A f \in Fetchers :
          LET loc == fetch[f]
          IN (/\ loc.pc = "save"
              /\ fetch'[f].pc # "save"
              /\ \E r \in emailRaw : r.gmailId = loc.messages[loc.i] /\ r.userId # loc.userId) =>
                /\ \E r \in emailRaw' :
                      r.gmailId = loc.messages[loc.i] /\ r.userId = loc.userId
                /\ fetch'[f].storedCount = loc.storedCount + 1
                /\ Len(fetch'[f].storedEmailIds) = Len(loc.storedEmailIds) + 1]_vars

(***************************************************************************)
(* Claims about the stand-alone operations.                                *)
(***************************************************************************)
\* C21: a storeEmailEmbedding call whose id is not a positive integer has
\* failed when it is over, and has made no network call to the vector index.
C21_InvalidIdFailsFast ==
    (store.pc = "done" /\ ~(store.emailId % 2 = 0 /\ store.emailId > 0)) =>
        /\ store.outcome = "failed"
        /\ store.netCalls = 0

\* C24: a constructed TBaseDTO has success = true exactly when no error
\* argument was given and success = false exactly when one was given; its
\* data, message and error fields are the arguments.
C24_SuccessIffNoError ==
    dto.built =>
        /\ dto.success <=> (dto.args.error.kind = "undefined")
        /\ dto.data = dto.args.data
        /\ dto.message = dto.args.message
        /\ dto.error = dto.args.error

\* a valid integer string: an optional minus sign and then digits only, at
\* least one
IsIntegerString(v) ==
    LET body == IF v # <<>> /\ Head(v) = "-" THEN Tail(v) ELSE v
    IN body # <<>> /\ \A k \in DOMAIN body : body[k] \in Digits

\* the integer a valid integer string denotes
IntegerOf(v) == IF Head(v) = "-" THEN 0 - DecimalValue(Tail(v)) ELSE DecimalValue(v)

\* C25: transform returns the integer its input denotes when the input is a
\* valid integer string, and throws BadRequestException for every other
\* input.
C25_ParsesOrRejects ==
    pipe.outcome # "none" =>
        IF IsIntegerString(pipe.value)
        THEN pipe.outcome = "returned" /\ pipe.val = IntegerOf(pipe.value)
        ELSE pipe.outcome = "BadRequestException"

\* C31: summarizeEmail and extractMetadata never fail because of the content of
\* the model's output: when the API answered and the output holds no JSON
\* object or a malformed one, each returns its defaults.
C31_OutputNeverFails ==
    LET jsonMatch == JsonMatch(gem.text)
        bad == ~jsonMatch.found \/ ~IsJson(jsonMatch.m)
    IN /\ (gem.summary.outcome # "none" /\ gem.summaryApi /\ bad) =>
             (gem.summary.outcome = "returned" /\ gem.summary.val = SummaryDefaults)
       /\ (gem.metadata.outcome # "none" /\ gem.metadataApi /\ bad) =>
             (gem.metadata.outcome = "returned" /\ gem.metadata.val = MetadataDefaults)

RECURSIVE PreOrder(_)
\* the parts of a tree in depth-first pre-order
PreOrder(part) ==
    LET RECURSIVE Flat(_)
        Flat(ps) == IF ps = <<>> THEN <<>> ELSE PreOrder(Head(ps)) \o Flat(Tail(ps))
    IN <<part>> \o Flat(part.parts)

\* the decoded data of the first part of this MIME type that has body data,
\* "" when there is none
FirstData(tree, mimeType) ==
    LET ps == PreOrder(tree)
        at == {i \in DOMAIN ps : ps[i].mimeType = mimeType /\ ps[i].data # ""}
    IN IF at = {} THEN ""
       ELSE Decode(ps[CHOOSE i \in at : \A j \in at : i <= j].data)

\* C32: the stored bodyText is the decoded data of the first text/plain part
\* of the payload tree in depth-first pre-order, and bodyHtml that of the first
\* text/html part.
C32_FirstPartWins ==
    payload.done =>
        /\ payload.bodyText = FirstData(payload.tree, "text/plain")
        /\ payload.bodyHtml = FirstData(payload.tree, "text/html")

\* the MIME types of the parts below the payload that carry a filename, in
\* depth-first pre-order
FileTypesAnywhere(rawData) ==
    LET ps == Tail(PreOrder(rawData))
        RECURSIVE Types(_)
        Types(qs) ==
            IF qs = <<>> THEN <<>>
            ELSE IF Head(qs).filename # ""
            THEN <<IF Head(qs).mimeType = "" THEN "unknown" ELSE Head(qs).mimeType>>
                     \o Types(Tail(qs))
            ELSE Types(Tail(qs))
    IN Types(ps)

\* C33: hasAttachment is true exactly when some part of the raw payload tree,
\* at any depth, carries a filename, and attachmentTypes lists the MIME type of
\* each such part.
C33_AttachmentsAtAnyDepth ==
    stats.done =>
        /\ stats.hasAttachment = (FileTypesAnywhere(stats.rawData) # <<>>)
        /\ stats.attachmentTypes = FileTypesAnywhere(stats.rawData)

RECURSIVE Tokens(_, _)
\* the number of maximal runs of characters that are no white space
Tokens(v, inWord) ==
    IF v = <<>> THEN 0
    ELSE IF IsSpace(Head(v)) THEN Tokens(Tail(v), FALSE)
    ELSE (IF Head(v) = "B" THEN WordsPerMinute - 1 ELSE 0) + (IF inWord THEN 0 ELSE 1)
             + Tokens(Tail(v), TRUE)

\* C35: the stored wordCount is the number of whitespace-separated tokens of
\* subject and body (0 when both are empty), and the stored readingTime is
\* ceil(wordCount / 200).
C35_WordCountIsTokenCount ==
    stats.done =>
        /\ stats.wordCount = Tokens(FullText(stats.subject, stats.content), FALSE)
        /\ stats.readingTime * WordsPerMinute >= stats.wordCount
        /\ (stats.readingTime - 1) * WordsPerMinute < stats.wordCount
        /\ (stats.subject = <<>> /\ stats.content = <<>>) => stats.wordCount = 0

\* C34: every external call is bounded by a timeout, so a call of
\* fetchAndStoreEmails and a call of processEmails eventually complete even
\* when an external call never answers.
C34_CallsComplete ==
    /\ \A f \in Fetchers : FetchInFlight(f) ~> ~FetchInFlight(f)
    /\ \A w \in Workers : Running(w) ~> ~Running(w)

\* C36: every item id of a published event is the id of an EmailRaw row of
\* the event's owner; an id enters the list a call will publish only in the
\* step that inserts its row, so never for a failed save or a skipped message;
\* and the event a call publishes carries exactly that list.
C36_PublishedIdsArePersisted ==
    /\ [](\A e \in events : \A n \in DOMAIN e.emailIds :
            \E r \in emailRaw : r.id = e.emailIds[n] /\ r.userId = e.userId)
    /\ [](\A f \in Fetchers : \A n \in DOMAIN fetch[f].storedEmailIds :
            \E r \in emailRaw : r.id = fetch[f].storedEmailIds[n] /\ r.userId = fetch[f].userId)
    /\ [][\A f \in Fetchers :
            (FetchInFlight(f) /\ FetchInFlight(f)'
                 /\ fetch'[f].storedEmailIds # fetch[f].storedEmailIds) =>
                \E row \in emailRaw' \ emailRaw :
                    /\ fetch[f].pc = "save"
                    /\ row.userId = fetch[f].userId
                    /\ row.gmailId = fetch[f].messages[fetch[f].i]
                    /\ fetch'[f].storedEmailIds = Append(fetch[f].storedEmailIds, row.id)
                    /\ fetch'[f].failed = fetch[f].failed]_vars
    /\ [][\A e \in events' \ events :
            \E f \in Fetchers :
                /\ fetch[f].pc = "publish"
                /\ e.userId = fetch[f].userId
                /\ e.emailIds = fetch[f].storedEmailIds]_vars

\* a call that stored one message and skipped another has published its event
C36_Witness ==
    \E f \in Fetchers : \E e \in events :
        /\ fetch[f].pc = "done"
        /\ fetch[f].result.success
        /\ fetch[f].result.count = 1
        /\ fetch[f].result.skipped = 1
        /\ Len(e.emailIds) = 1
        /\ \E r \in emailRaw : r.id = e.emailIds[1] /\ r.userId = e.userId

\* a call's count of stored messages moves only with a row of its owner being
\* inserted, one for one
CountFollowsRows ==
    /\ [][\A f \in Fetchers :
            (FetchInFlight(f) /\ FetchInFlight(f)'
                 /\ fetch'[f].storedCount # fetch[f].storedCount) =>
                /\ fetch'[f].storedCount = fetch[f].storedCount + 1
                /\ \E row \in emailRaw' \ emailRaw : row.userId = fetch[f].userId]_vars
    /\ [][\A row \in emailRaw' \ emailRaw :
            \E f \in Fetchers :
                /\ fetch[f].pc = "save"
                /\ fetch[f].userId = row.userId
                /\ fetch'[f].storedCount = fetch[f].storedCount + 1]_vars

\* C37: for every outcome of fetchAndStoreEmails the returned count is the
\* number of EmailRaw rows the call created; a failure result (count 0) means
\* the call created no row.
C37_CountIsRowsCreated ==
    /\ CountFollowsRows
    /\ [][\A f \in Fetchers :
            (FetchInFlight(f) /\ fetch'[f].pc = "done") =>
                /\ fetch'[f].result.count = fetch[f].storedCount
                /\ ~fetch'[f].result.success => fetch[f].storedCount = 0]_vars

\* C38: while saveGmailTokens is not called, an owner without a credential
\* row stays without one: after a disconnect no renewal that was in flight
\* creates the row again, so once the calls in flight have finished the owner
\* has no row.
C38_DisconnectIsFinal ==
    [][\A o \in Owners : gmailTokens[o].id = 0 => gmailTokens'[o].id = 0]_vars

\* C39: every successful return of getValidAccessToken is a non-empty access
\* token, and the token a renewal returns is the one stored for the owner when
\* the renewal completed; a renewal response without an access token is never
\* returned as a credential.
C39_ReturnsStoredToken ==
    /\ [](\A c \in Callers : cpc[c] = "done" => cres[c] > 0)
    /\ [][\A c \in Callers :
            (cpc[c] = "saveSave" /\ cpc'[c] = "done") =>
                /\ cres'[c] = gmailTokens'[cowner[c]].accessToken
                /\ \A d \in Callers :
                      (cpc[d] = "wait" /\ cwait[d] = c) => cres'[d] = cres'[c]]_vars

\* a restore run ends in the catch of the scheduler at this step
RunFails(r) == restore[r].pc \in {"find", "save"} /\ restore'[r].pc = "done" /\ ~restore'[r].ok

\* C40: a restore run that throws ends in the scheduler's catch and leaves the
\* schedule as it was, so that whenever the interval is due the next periodic
\* run can start, whatever earlier runs did; once onModuleDestroy has run no
\* restore run is started any more.
C40_FailureKeepsSchedule ==
    /\ [][\A r \in RunSlots : RunFails(r) => sched' = sched /\ triggered' = triggered]_vars
    /\ [](TimerDue => ENABLED SchedInterval)
    /\ [][sched.stopped =>
            /\ sched' = sched
            /\ triggered' = triggered
            /\ \A r \in RunSlots : restore'[r].pc = "find" => restore[r].pc = "find"]_vars

\* a run has failed, the scheduler is still running and its interval is due
C40_Witness ==
    /\ TimerDue
    /\ sched.fired >= 1
    /\ \E r \in RunSlots : restore[r].pc = "done" /\ ~restore[r].ok

====
